---- MODULE Spec2Model ----
(***************************************************************************)
(* Vision 1_6_RE wallet risk engine: the rule engines of the server worker *)
(* (v1.6.3 scoreFromFeatures / buildRiskResponse, v1.6.4 scoreWithLists),  *)
(* lib/risk-model.js (scoreAddressModelV1), the heuristics ensemble        *)
(* (runRiskModel) and shared/risk-core (scoreOne, scoreBatch, pLimit).     *)
(*                                                                         *)
(* Numbers: ages and timestamps are whole days; ratios and rates are exact *)
(* rationals <<numerator, denominator>> with a positive denominator, so    *)
(* every threshold comparison of the source is decided exactly.            *)
(***************************************************************************)
EXTENDS Integers, Sequences, FiniteSets, TLC

VARIABLES
    engine,      \* scoring: which rule engine variant is deployed
    feats,       \* scoring: FeatureVector handed to the engine
    coreFeats,   \* scoring: feature object of shared/risk-core
    heuristics,  \* scoring: weight-table override given to runRiskModel
    ofacSet,     \* parsed OFAC_SET
    tornadoSet,  \* parsed TORNADO_SET
    scamSet,     \* parsed SCAM_CLUSTERS
    signals,     \* scoring: signals / listHits object given to a pure engine
    res,         \* scoring: the returned result, NoRes before the call
    bImpl,       \* batch: which scoreBatch runs (risk-core, worker pool, v1.6.3 loop)
    items,       \* batch: the items of the batch, a sequence of address ids
    conc,        \* batch: the configured concurrency, 0 when none was configured
    bpc,         \* batch: "init", "running", then how the batch ended
    q,           \* batch: pLimit's queue of waiting tasks (item indices)
    active,      \* batch: pLimit's count of running tasks
    index,       \* batch: the worker pool's shared next-item index
    wk,          \* batch: per pool worker, the item it awaits, 0 idle, -1 returned
    st,          \* batch: per item "queued", "running", "hit", "ok", "failed"
    out,         \* batch: the out array of risk-core scoreBatch
    posted,      \* batch: the messages posted to the main thread, in order
    SCORE_CACHE, \* batch: keys the worker's score cache holds
    settled,     \* batch: the item indices in the order their scoring settled
    cImpl,       \* cache: which cache is exercised (txCache, SCORE_CACHE, scoreCache)
    configured,  \* cache: the upstream is configured (etherscan key / apiBase)
    clock,       \* cache: Date.now(), in minutes
    entries,     \* cache: the Map, key -> None or Some(entry)
    pending,     \* cache: the upstream fetches in flight, [key, now] each
    insertedAt,  \* cache: key -> None or Some(time of the latest cache.set)
    last,        \* cache: what the latest request did
    server,      \* http: which worker serves /score (v163, v164, v162)
    rawAddress,  \* http: the address query parameter, a sequence of characters
    hEnv,        \* http: which provider keys the environment holds
    lists,       \* http: the parsed OFAC, Tornado and scam-cluster sets
    hpc,         \* http: "recv", "etherscan", "alchemy" (awaiting it), "done"
    httpStatus,  \* http: the HTTP status of the response, 0 before it
    reqAddr,     \* http: the address after the handler normalised it
    hist,        \* http: None, or Some(the history the features were derived from)
    body,        \* http: the response body of a scored request
    stages,      \* http: the pipeline stages invoked for the request
    gotTxs,      \* http: some provider call returned at least one transaction
    parser,      \* lists: which list parser the worker uses
    blobs,       \* lists: the three raw list blobs of the environment
    registry,    \* lists: the three parsed sets, NoRes before they are parsed
    lpc,         \* lists: "load", "loaded", "looked"
    membership,  \* lists: the hits of the looked-up address, NoRes before
    gImpl,       \* graph: which neighbor-graph builder runs
    gTxs,        \* graph: the transaction list given to the builder
    gLimit,      \* graph: the limit given to the builder
    graph,       \* graph: the returned {nodes, links}, NoRes before the call
    lruMax,      \* lru: this.max
    lruTtl,      \* lru: this.ttl, in minutes; 0 is falsy, no expiry
    lruMap,      \* lru: this.map, the entries [k, v, t] in Map order
    lruClock,    \* lru: Date.now(), in minutes
    lruOps,      \* lru: the number of operations called so far
    lruTouched,  \* lru: per key, the number of the last set or read hit of it
    lruPrev,     \* lru: this.map as it was before the latest operation
    lruRet,      \* lru: the latest operation and what it returned
    mWorker,     \* main: which visionRisk worker the page runs (part_003, part_001)
    requests,    \* main: per request id, the message post() sent to the worker
    posts,       \* main: the number of requests posted so far
    pendingMap,  \* main: the ids that have an entry in the pending Map
    wpc,         \* main: per request id, where the worker's handler stands
    wleft,       \* main: per SCORE_BATCH, the item indices not yet settled
    toMain,      \* main: the worker's messages on their way to the page, in order
    replies,     \* main: per request id, the replies the worker posted with it
    settles,     \* main: per request id, how often its promise was settled
    uiBound,     \* main: bindUI() has run
    selectedNodeId, \* main: the selected node id, "null" before the first setSelected
    panel,       \* main: the latest updateScorePanel: the result id and the selection then
    fImpl,       \* features: which buildFeatures is called
    fTxs,        \* features: the caller's transaction array
    fGiven,      \* features: the array as it was when the call was made
    fOut         \* features: the returned feature vector, NoRes before the call

scoreVars ==
    <<engine, feats, coreFeats, heuristics, ofacSet, tornadoSet, scamSet, signals, res>>

batchVars ==
    <<bImpl, items, conc, bpc, q, active, index, wk, st, out, posted, SCORE_CACHE,
      settled>>

cacheVars == <<cImpl, configured, clock, entries, pending, insertedAt, last>>

httpVars ==
    <<server, rawAddress, hEnv, lists, hpc, httpStatus, reqAddr, hist, body, stages,
      gotTxs>>

listsVars == <<parser, blobs, registry, lpc, membership>>

graphVars == <<gImpl, gTxs, gLimit, graph>>

lruVars == <<lruMax, lruTtl, lruMap, lruClock, lruOps, lruTouched, lruPrev, lruRet>>

featVars == <<fImpl, fTxs, fGiven, fOut>>

mainVars ==
    <<mWorker, requests, posts, pendingMap, wpc, wleft, toMain, replies, settles,
      uiBound, selectedNodeId, panel>>

(* ------------------------------ numbers -------------------------------- *)

Q(n, d) == <<n, d>>
R(n) == <<n, 1>>
RLt(a, b) == a[1] * b[2] < b[1] * a[2]
RLe(a, b) == a[1] * b[2] <= b[1] * a[2]
RGt(a, b) == RLt(b, a)
RGe(a, b) == RLe(b, a)
RAdd(a, b) == <<a[1] * b[2] + b[1] * a[2], a[2] * b[2]>>
RMul(a, b) == <<a[1] * b[1], a[2] * b[2]>>
RIsZero(a) == a[1] = 0

Max2(a, b) == IF a >= b THEN a ELSE b
Min2(a, b) == IF a <= b THEN a ELSE b

clampFloorOnly(x, lo, hi) == Max2(lo, x)

\* Math.max(lo, Math.min(hi, x)) on integers
clamp(x, lo, hi) == Max2(lo, Min2(hi, x))

\* Math.round(w / 2) for an integer w (round half up)
RoundHalf(w) == (w + 1) \div 2

(* ------------------------------ addresses ------------------------------ *)

Subject == "0xsubject"
Other == "0xother"

NoRes == [none |-> TRUE]

\* obj.key of a JS object that may lack the key: undefined is falsy
Truthy(obj, key) == IF key \in DOMAIN obj THEN obj[key] ELSE FALSE

(* --------------------------- feature vectors --------------------------- *)

DefaultFeats ==
    [ageDays |-> 400, txCount |-> 10, activeDays |-> 10,
     txPerDay |-> R(1), burstScore |-> R(0),
     uniqueCounterparties |-> 5, topCounterpartyShare |-> Q(1, 2),
     isDormant |-> FALSE, dormantDays |-> 0, resurrectedRecently |-> FALSE,
     neighborCount |-> 5,
     sanctionedNeighborRatio |-> R(0), highRiskNeighborRatio |-> R(0),
     dormantNeighborRatio |-> R(0), riskyNeighborRatio |-> R(0),
     mixerProximity |-> R(0), custodianExposure |-> R(0),
     scamPlatformExposure |-> R(0)]

AgeVals == {0, 3, 7, 29, 100, 180, 400, 730, 1000}
TpdVals == {R(0), R(4), R(11), R(51)}
BurstVals == {R(0), Q(55, 100), Q(95, 100)}
UniqVals == {1, 3, 30}
ShareVals == {R(0), Q(65, 100), Q(95, 100)}
NeighborVals == {0, 45}


(* ------------- server.worker.js v1.6.3: scoreFromFeatures -------------- *)

BaseScore == 15

\* age buckets of scoreFromFeatures
AgeImpactV163(ageDays) ==
    IF ageDays < 7 THEN 25
    ELSE IF ageDays < 180 THEN 10
    ELSE IF ageDays < 365 * 2 THEN 2
    ELSE -5

VelImpactV163(txPerDay, burstScore) ==
    IF RGt(txPerDay, R(50)) \/ RGt(burstScore, Q(9, 10)) THEN 25
    ELSE IF RGt(txPerDay, R(10)) \/ RGt(burstScore, Q(7, 10)) THEN 15
    ELSE IF RGt(txPerDay, R(3)) \/ RGt(burstScore, Q(5, 10)) THEN 5
    ELSE 0

MixImpactV163(uniq, topShare) ==
    IF uniq <= 1 /\ RGe(topShare, Q(9, 10)) THEN 14
    ELSE IF uniq < 4 /\ RGe(topShare, Q(6, 10)) THEN 8
    ELSE IF uniq > 25 /\ RLt(topShare, Q(2, 10)) THEN -2
    ELSE 0

NeighborImpactV163(neighborCount) == IF neighborCount > 40 THEN 5 ELSE 0

ListsImpactV163(sig) ==
    (IF Truthy(sig, "ofacHit") THEN 70 ELSE 0)
    + (IF Truthy(sig, "mixer") THEN 35 ELSE 0)
    + (IF Truthy(sig, "scamCluster") THEN 30 ELSE 0)

\* the override ladder and the final clamp
OverrideV163(score, sig) ==
    LET s == IF Truthy(sig, "ofacHit") THEN 100
             ELSE IF Truthy(sig, "mixer") /\ Truthy(sig, "scamCluster")
                  THEN Max2(score, 90)
             ELSE IF Truthy(sig, "mixer") \/ Truthy(sig, "scamCluster")
                  THEN Max2(score, 80)
             ELSE score
    IN  Max2(0, Min2(100, s))

scoreFromFeatures(f, sig) ==
    LET parts == [age |-> AgeImpactV163(f.ageDays),
                  velocity |-> VelImpactV163(f.txPerDay, f.burstScore),
                  mix |-> MixImpactV163(f.uniqueCounterparties, f.topCounterpartyShare),
                  neighbor |-> NeighborImpactV163(f.neighborCount),
                  lists |-> ListsImpactV163(sig),
                  dormant |-> 0, concentration |-> 0, governance |-> 0]
        rawContribution == parts.age + parts.velocity + parts.mix
                           + parts.neighbor + parts.lists
        score == OverrideV163(BaseScore + rawContribution, sig)
    IN  [score |-> score,
         block |-> (Truthy(sig, "ofacHit") \/ score >= 90),
         baseScore |-> BaseScore,
         rawContribution |-> rawContribution,
         confidence |-> 100,
         parts |-> parts]

\* the signals object buildRiskResponse hands to scoreFromFeatures
SignalsV163(addr, ofac, tornado, scam) ==
    [ofacHit |-> addr \in ofac,
     chainabuse |-> FALSE,
     caFraud |-> FALSE,
     scamPlatform |-> addr \in scam,
     mixer |-> addr \in tornado,
     custodian |-> FALSE]

ReasonsV163(parts, ofacHit, mixerHit, scamClusterHit) ==
    (IF parts.age # 0 THEN {"Wallet age"} ELSE {})
    \cup (IF parts.velocity # 0 THEN {"Transaction velocity & bursts"} ELSE {})
    \cup (IF parts.mix # 0 THEN {"Counterparty mix & concentration"} ELSE {})
    \cup (IF ofacHit THEN {"OFAC / sanctions list match"} ELSE {})
    \cup (IF mixerHit THEN {"Mixer proximity (Tornado)"} ELSE {})
    \cup (IF scamClusterHit THEN {"Sketchy cluster pattern"} ELSE {})

\* buildRiskResponse after the features are derived: list lookups, signals,
\* scoreFromFeatures, reasons and the response object
RiskResponseV163(addr, f, ofac, tornado, scam) ==
    LET ofacHit == addr \in ofac
        mixerHit == addr \in tornado
        scamClusterHit == addr \in scam
        f2 == [f EXCEPT !.mixerProximity = IF mixerHit THEN R(1) ELSE R(0),
                        !.scamPlatformExposure = IF scamClusterHit THEN R(1) ELSE R(0)]
        r == scoreFromFeatures(f2, SignalsV163(addr, ofac, tornado, scam))
    IN  [score |-> r.score, block |-> r.block,
         baseScore |-> r.baseScore, rawContribution |-> r.rawContribution,
         confidence |-> r.confidence, parts |-> r.parts,
         reasons |-> ReasonsV163(r.parts, ofacHit, mixerHit, scamClusterHit),
         sanctionHits |-> IF ofacHit THEN 1 ELSE 0,
         feats |-> f2]

(* --------------- server.worker.js v1.6.4: scoreWithLists --------------- *)

\* the two youngest buckets with their impacts exchanged
AgeImpactBucketsSwapped(d) ==
    IF d <= 7 THEN 10
    ELSE IF d <= 180 THEN 25
    ELSE IF d <= 730 THEN 2
    ELSE -10

AgeImpactV164(d) ==
    IF d <= 7 THEN 25
    ELSE IF d <= 180 THEN 10
    ELSE IF d <= 730 THEN 2
    ELSE IF d > 730 THEN -10
    ELSE 0

VelImpactV164(txPerDay, burstScore) ==
    IF RGt(txPerDay, R(50)) \/ RGt(burstScore, Q(8, 10)) THEN 22
    ELSE IF RGt(txPerDay, R(10)) \/ RGt(burstScore, Q(6, 10)) THEN 14
    ELSE IF RGe(txPerDay, R(1)) \/ RGt(burstScore, Q(4, 10)) THEN 4
    ELSE 0

MixImpactV164(uniq, topShare) ==
    IF uniq <= 2 /\ RGt(topShare, Q(8, 10)) THEN 14
    ELSE IF uniq >= 8 /\ RLt(topShare, Q(3, 10)) THEN -2
    ELSE 0

NeighborImpactV164(neighborCount) ==
    IF neighborCount >= 30 THEN 6
    ELSE IF neighborCount >= 10 THEN 3
    ELSE 0

DormantImpactV164(f) == IF f.isDormant /\ f.ageDays > 365 THEN 4 ELSE 0

ListsImpactV164(ofacHit, scamHit, tornadoHit) ==
    (IF ofacHit THEN 70 ELSE 0)
    + (IF scamHit THEN 55 ELSE 0)
    + (IF tornadoHit THEN 30 ELSE 0)
    + (IF tornadoHit /\ scamHit THEN 35 ELSE 0)

ReasonsV164(parts, ofacHit, scamHit, tornadoHit) ==
    (IF parts.age > 0 THEN {"Wallet age"} ELSE {})
    \cup (IF parts.velocity > 0 THEN {"Transaction velocity & bursts"} ELSE {})
    \cup (IF parts.mix > 0 THEN {"Counterparty mix & concentration"} ELSE {})
    \cup (IF parts.neighbor > 0 THEN {"Neighbor & cluster risk"} ELSE {})
    \cup (IF parts.lists > 0 /\ ofacHit THEN {"OFAC / sanctions list match"} ELSE {})
    \cup (IF parts.lists > 0 /\ scamHit /\ ~ofacHit
          THEN {"Sketchy / scam cluster pattern"} ELSE {})
    \cup (IF parts.lists > 0 /\ tornadoHit /\ ~ofacHit
          THEN {"Mixer proximity pattern"} ELSE {})

scoreWithLists(addr, f, ofac, tornado, scam) ==
    LET ofacHit == addr \in ofac
        scamHit == addr \in scam
        tornadoHit == addr \in tornado
        parts == [age |-> AgeImpactV164(f.ageDays),
                  velocity |-> VelImpactV164(f.txPerDay, f.burstScore),
                  mix |-> MixImpactV164(f.uniqueCounterparties, f.topCounterpartyShare),
                  neighbor |-> NeighborImpactV164(f.neighborCount),
                  dormant |-> DormantImpactV164(f),
                  lists |-> ListsImpactV164(ofacHit, scamHit, tornadoHit),
                  concentration |-> 0, governance |-> 0]
        rawContribution == parts.age + parts.velocity + parts.mix + parts.neighbor
                           + parts.dormant + parts.lists + parts.governance
        score == clamp(BaseScore + rawContribution, 0, 100)
    IN  [score |-> score,
         block |-> (ofacHit \/ score >= 95),
         baseScore |-> BaseScore,
         rawContribution |-> rawContribution,
         confidence |-> 100,
         parts |-> parts,
         reasons |-> ReasonsV164(parts, ofacHit, scamHit, tornadoHit),
         sanctionHits |-> IF ofacHit THEN 1 ELSE 0,
         feats |-> f]

(* ------------------------ part_000: scoreWallet ------------------------ *)

AgeImpactWallet(ageDays) ==
    IF ageDays < 7 THEN 25
    ELSE IF ageDays < 180 THEN 15
    ELSE IF ageDays < 730 THEN 2
    ELSE -5

VelImpactWallet(txPerDay, burstScore) ==
    IF RGt(txPerDay, R(50)) \/ RGt(burstScore, Q(8, 10)) THEN 22
    ELSE IF RGt(txPerDay, R(10)) \/ RGt(burstScore, Q(4, 10)) THEN 12
    ELSE 0

MixImpactWallet(f) ==
    IF /\ f.uniqueCounterparties <= 2
       /\ RGt(f.topCounterpartyShare, Q(8, 10))
       /\ f.txCount > 20
    THEN 14 ELSE 0

NeighborImpactWallet(neighborCount) == IF neighborCount > 20 THEN 5 ELSE 0

ListsImpactWallet(inOfac, inScam, inTornado) ==
    (IF inOfac THEN 70 ELSE 0) + (IF inScam THEN 20 ELSE 0)
    + (IF inTornado THEN 18 ELSE 0)

DormantImpactWallet(f) ==
    IF f.isDormant /\ f.dormantDays > 365 THEN 5
    ELSE IF f.resurrectedRecently THEN 8
    ELSE 0

ReasonsWallet(parts, inOfac) ==
    (IF parts.velocity > 0 THEN {"Transaction velocity & bursts"} ELSE {})
    \cup (IF parts.age # 0 THEN {"Wallet age"} ELSE {})
    \cup (IF parts.neighbor > 0 THEN {"Neighbor & cluster risk"} ELSE {})
    \cup (IF parts.mix > 0 THEN {"Counterparty mix & concentration"} ELSE {})
    \cup (IF parts.lists > 0 /\ inOfac THEN {"OFAC / sanctions list match"} ELSE {})

\* block = rawScore >= 85 || inOfac
scoreWallet(addr, f, ofac, tornado, scam) ==
    LET inOfac == addr \in ofac
        inScam == addr \in scam
        inTornado == addr \in tornado
        parts == [age |-> AgeImpactWallet(f.ageDays),
                  velocity |-> VelImpactWallet(f.txPerDay, f.burstScore),
                  mix |-> MixImpactWallet(f),
                  neighbor |-> NeighborImpactWallet(f.neighborCount),
                  lists |-> ListsImpactWallet(inOfac, inScam, inTornado),
                  dormant |-> DormantImpactWallet(f),
                  concentration |-> 0, governance |-> 0]
        contribution == parts.age + parts.velocity + parts.mix + parts.neighbor
                        + parts.lists + parts.dormant
        rawScore == clamp(BaseScore + contribution, 0, 100)
    IN  [score |-> rawScore,
         reasons |-> ReasonsWallet(parts, inOfac),
         block |-> (rawScore >= 85 \/ inOfac),
         sanctionHits |-> IF inOfac THEN 1 ELSE 0,
         baseScore |-> BaseScore,
         rawContribution |-> contribution,
         confidence |-> IF f.txCount # 0 /\ f.ageDays # 365 THEN 100 ELSE 60,
         parts |-> parts,
         feats |-> f]

(* ---------------------- part_000: scoreWithModel ----------------------- *)

AgeImpactModel(ageDays) ==
    IF ageDays < 7 THEN 25
    ELSE IF ageDays < 30 THEN 18
    ELSE IF ageDays < 180 THEN 8
    ELSE IF ageDays < 730 THEN 2
    ELSE -5

VelImpactModel(txPerDay) ==
    IF RGt(txPerDay, R(50)) THEN 22
    ELSE IF RGt(txPerDay, R(10)) THEN 15
    ELSE IF RGt(txPerDay, R(3)) THEN 10
    ELSE IF RGt(txPerDay, Q(1, 2)) THEN 4
    ELSE 0

MixImpactModel(uniq, topShare) ==
    IF uniq <= 1 \/ RGt(topShare, Q(8, 10)) THEN 14
    ELSE IF uniq <= 3 \/ RGt(topShare, Q(5, 10)) THEN 8
    ELSE IF uniq > 20 /\ RLt(topShare, Q(2, 10)) THEN -2
    ELSE 0

NeighborImpactModel(f) ==
    IF \/ RGt(f.sanctionedNeighborRatio, Q(1, 10))
       \/ RGt(f.highRiskNeighborRatio, Q(3, 10)) THEN 15
    ELSE IF RGt(f.highRiskNeighborRatio, Q(1, 10)) THEN 8
    ELSE 0

ListImpactModel(ofacHit, inScam, inTornado) ==
    (IF ofacHit THEN 70 ELSE 0) + (IF inScam THEN 30 ELSE 0)
    + (IF inTornado THEN 25 ELSE 0)

\* the sanctions label is pushed on listImpact > 0
ReasonsModel(parts) ==
    (IF parts.age > 0 THEN {"Wallet age"} ELSE {})
    \cup (IF parts.velocity > 0 THEN {"Transaction velocity & bursts"} ELSE {})
    \cup (IF parts.mix > 0 THEN {"Counterparty mix & concentration"} ELSE {})
    \cup (IF parts.neighbor > 0 THEN {"Neighbor & cluster risk"} ELSE {})
    \cup (IF parts.lists > 0 THEN {"OFAC / sanctions list match"} ELSE {})

\* score = clamp(baseScore + rawContribution, 0, 100), raised to 87 on an
\* OFAC hit; block = ofacHit || score >= 90
scoreWithModel(addr, f, ofac, tornado, scam) ==
    LET ofacHit == addr \in ofac
        inScam == addr \in scam
        inTornado == addr \in tornado
        parts == [age |-> AgeImpactModel(f.ageDays),
                  velocity |-> VelImpactModel(f.txPerDay),
                  mix |-> MixImpactModel(f.uniqueCounterparties,
                                         f.topCounterpartyShare),
                  neighbor |-> NeighborImpactModel(f),
                  lists |-> ListImpactModel(ofacHit, inScam, inTornado),
                  dormant |-> 0, concentration |-> 0, governance |-> 0]
        rawContribution == parts.age + parts.velocity + parts.mix
                           + parts.neighbor + parts.lists
        clamped == clamp(BaseScore + rawContribution, 0, 100)
        score == IF ofacHit /\ clamped < 87 THEN 87 ELSE clamped
    IN  [score |-> score,
         reasons |-> ReasonsModel(parts),
         block |-> (ofacHit \/ score >= 90),
         sanctionHits |-> IF ofacHit THEN 1 ELSE 0,
         baseScore |-> BaseScore,
         rawContribution |-> rawContribution,
         confidence |-> 100,
         parts |-> parts,
         feats |-> f]

(* --------------- lib/risk-model.js: scoreAddressModelV1 ---------------- *)

\* what kind of value the feature object holds in field k: "number", "NaN",
\* or "text" for a string that is no number.  A feature object whose fields
\* are all numbers has no malformed field; otherwise f.malformed maps the
\* names of its ill-formed fields to their kind.
KindOf(f, k) ==
    IF "malformed" \in DOMAIN f /\ k \in DOMAIN f.malformed THEN f.malformed[k]
    ELSE "number"

AgeImpactLib(ageDays) ==
    IF ageDays < 7 THEN 25
    ELSE IF ageDays < 180 THEN 15
    ELSE IF ageDays < 730 THEN 2
    ELSE -10

\* intensity = txPerDay + burstScore * 20
VelImpactLib(txPerDay, burstScore) ==
    LET intensity == RAdd(txPerDay, RMul(burstScore, R(20)))
    IN  IF RGe(intensity, R(100)) THEN 22
        ELSE IF RGe(intensity, R(30)) THEN 10
        ELSE IF RGt(intensity, R(0)) THEN 4
        ELSE 0

\* ageDays = typeof feats.ageDays === 'number' ? Math.max(0, feats.ageDays) : null
\* a string gives null and impact 0; NaN is a number, Math.max(0, NaN) is NaN,
\* every < test fails and the last branch is taken
AgeImpactOfLib(f) ==
    IF KindOf(f, "ageDays") = "text" THEN 0
    ELSE IF KindOf(f, "ageDays") = "NaN" THEN -10
    ELSE AgeImpactLib(Max2(0, f.ageDays))

\* txPerDay = Number(feats.txPerDay || 0), burstScore likewise: NaN is falsy
\* and becomes 0; a string that is no number becomes NaN, the intensity is
\* NaN and no >= test passes
VelImpactOfLib(f) ==
    IF "text" \in {KindOf(f, "txPerDay"), KindOf(f, "burstScore")} THEN 0
    ELSE VelImpactLib(IF KindOf(f, "txPerDay") = "NaN" THEN R(0) ELSE f.txPerDay,
                      IF KindOf(f, "burstScore") = "NaN" THEN R(0) ELSE f.burstScore)

MixImpactLib(uniq, topShare) ==
    IF uniq <= 1 /\ RGe(topShare, Q(9, 10)) THEN 14
    ELSE IF uniq <= 3 /\ RGe(topShare, Q(7, 10)) THEN 9
    ELSE IF uniq >= 10 /\ RLe(topShare, Q(2, 10)) THEN -2
    ELSE 0

MixedClusterLib(f) ==
    /\ f.neighborCount > 0
    /\ (RGe(f.riskyNeighborRatio, Q(3, 10)) \/ RGt(f.sanctionedNeighborRatio, R(0)))

ListsImpactLib(f, ofacHit, tornadoHit, scamClusterHit) ==
    LET sketchyCluster == \/ MixedClusterLib(f)
                          \/ RGe(f.mixerProximity, Q(5, 10))
                          \/ RGe(f.scamPlatformExposure, Q(4, 10))
    IN  (IF ofacHit THEN 70 ELSE 0)
        + (IF tornadoHit THEN 35 ELSE 0)
        + (IF scamClusterHit THEN 25 ELSE 0)
        + (IF tornadoHit /\ sketchyCluster THEN 10 ELSE 0)

\* hard clamp and OFAC override
FinalScoreLib(sum, ofacHit) ==
    LET c == clamp(sum, 0, 100)
    IN  IF ofacHit /\ c < 100 THEN 100 ELSE c

PartLabel ==
    [age |-> "Wallet age",
     velocity |-> "Transaction velocity & bursts",
     mix |-> "Counterparty mix & concentration",
     neighbor |-> "Neighbor & cluster risk",
     dormant |-> "Dormancy & resurrection patterns",
     concentration |-> "Flow concentration (fan-in/out)",
     lists |-> "External fraud & platform signals",
     governance |-> "Governance / override"]

\* labels of the parts with a non-zero impact
buildReasons(parts) == {PartLabel[k] : k \in {j \in DOMAIN parts : parts[j] # 0}}

scoreAddressModelV1(f, listHits) ==
    LET ofacHit == Truthy(listHits, "ofacHit") \/ Truthy(listHits, "ofac")
                   \/ Truthy(listHits, "sanctioned")
        tornadoHit == Truthy(listHits, "tornadoHit") \/ Truthy(listHits, "tornado")
        scamClusterHit == Truthy(listHits, "scamClusterHit")
                          \/ Truthy(listHits, "scamCluster")
        parts == [age |-> AgeImpactOfLib(f),
                  velocity |-> VelImpactOfLib(f),
                  mix |-> MixImpactLib(f.uniqueCounterparties, f.topCounterpartyShare),
                  neighbor |-> IF MixedClusterLib(f) THEN 5 ELSE 0,
                  dormant |-> 0, concentration |-> 0,
                  lists |-> ListsImpactLib(f, ofacHit, tornadoHit, scamClusterHit),
                  governance |-> 0]
        rawContribution == parts.age + parts.velocity + parts.mix
                           + parts.neighbor + parts.lists
        finalScore == FinalScoreLib(BaseScore + rawContribution, ofacHit)
    IN  [score |-> finalScore,
         block |-> ofacHit,
         baseScore |-> BaseScore,
         rawContribution |-> rawContribution,
         confidence |-> 100,
         parts |-> parts,
         reasons |-> buildReasons(parts),
         sanctionHits |-> IF ofacHit THEN 1 ELSE 0,
         feats |-> f]

(* ---------------- heuristics ensemble: runRiskModel -------------------- *)

DefaultWeights ==
    [age_very_young |-> 18, age_young |-> 12, age_mid |-> 5,
     age_mature |-> -4, age_very_old |-> -10,
     velocity_none |-> 4, velocity_low |-> 2, velocity_normal |-> 0,
     velocity_high |-> 8, velocity_extreme |-> 16,
     mix_high_concentration |-> 10, mix_moderate_concentration |-> 5,
     mix_diversified |-> -2,
     dormant_aged_wallet |-> 10, dormant_neighbor_cluster |-> 8,
     resurrection_spike |-> 10,
     neighbor_sanctioned_cluster |-> 18, neighbor_high_risk_cluster |-> 12,
     neighbor_mixed_cluster |-> 5,
     chainabuse_flag |-> 8, ca_fraud_flag |-> 14, scam_platform_flag |-> 8,
     mixer_proximity |-> 12, custodian_wash |-> -6,
     governance_adjust |-> 0]

DefaultCaps ==
    [maxScore |-> 100, minScore |-> 0,
     maxPositiveContribution |-> 60, maxNegativeContribution |-> -25]

\* { ...DEFAULT_HEURISTICS, ...override, weights: {...}, caps: {...} }
mergeHeuristics(override) ==
    [baseScore |-> IF "baseScore" \in DOMAIN override
                   THEN override.baseScore ELSE BaseScore,
     weights |-> [k \in DOMAIN DefaultWeights |->
                    IF "weights" \in DOMAIN override /\ k \in DOMAIN override.weights
                    THEN override.weights[k] ELSE DefaultWeights[k]],
     caps |-> [k \in DOMAIN DefaultCaps |->
                    IF "caps" \in DOMAIN override /\ k \in DOMAIN override.caps
                    THEN override.caps[k] ELSE DefaultCaps[k]]]

\* clamp(num(x), 0, 1) on a rational
Clamp01R(x) == IF RLt(x, R(0)) THEN R(0) ELSE IF RGt(x, R(1)) THEN R(1) ELSE x

normalizeFeats(f) ==
    [f EXCEPT !.txPerDay = IF f.activeDays > 0 THEN Q(f.txCount, f.activeDays) ELSE R(0),
              !.burstScore = Clamp01R(f.burstScore),
              !.topCounterpartyShare = Clamp01R(f.topCounterpartyShare),
              !.sanctionedNeighborRatio = Clamp01R(f.sanctionedNeighborRatio),
              !.highRiskNeighborRatio = Clamp01R(f.highRiskNeighborRatio),
              !.dormantNeighborRatio = Clamp01R(f.dormantNeighborRatio),
              !.mixerProximity = Clamp01R(f.mixerProximity),
              !.custodianExposure = Clamp01R(f.custodianExposure),
              !.scamPlatformExposure = Clamp01R(f.scamPlatformExposure)]

ageScore(f, w) ==
    LET days == f.ageDays
    IN  IF ~(days > 0) THEN 0
        ELSE IF days < 7 THEN w.age_very_young
        ELSE IF days < 30 THEN w.age_young
        ELSE IF days < 180 THEN w.age_mid
        ELSE IF days < 730 THEN w.age_mature
        ELSE w.age_very_old

velocityScore(f, w) ==
    LET tpd == f.txPerDay
        burst == f.burstScore
        rate == IF RIsZero(tpd) THEN w.velocity_none
                ELSE IF RLt(tpd, Q(1, 10)) THEN w.velocity_low
                ELSE IF RLt(tpd, R(3)) THEN w.velocity_normal
                ELSE IF RLt(tpd, R(20)) THEN w.velocity_high
                ELSE w.velocity_extreme
        bursts == IF RGe(burst, Q(7, 10)) THEN RoundHalf(w.velocity_extreme)
                  ELSE IF RGe(burst, Q(4, 10)) THEN RoundHalf(w.velocity_high)
                  ELSE 0
    IN  rate + bursts

mixScore(f, w) ==
    IF ~(f.uniqueCounterparties > 0) THEN 0
    ELSE IF RGt(f.topCounterpartyShare, Q(8, 10)) THEN w.mix_high_concentration
    ELSE IF RGt(f.topCounterpartyShare, Q(5, 10)) THEN w.mix_moderate_concentration
    ELSE w.mix_diversified

dormantScore(f, w) ==
    (IF f.isDormant /\ f.ageDays > 180 THEN w.dormant_aged_wallet ELSE 0)
    + (IF RGe(f.dormantNeighborRatio, Q(6, 10)) /\ f.neighborCount >= 5
       THEN w.dormant_neighbor_cluster ELSE 0)
    + (IF f.resurrectedRecently /\ f.dormantDays > 30 THEN w.resurrection_spike ELSE 0)

neighborScore(f, sig, w) ==
    IF f.neighborCount <= 0 THEN 0
    ELSE (IF RGe(f.sanctionedNeighborRatio, Q(3, 10)) THEN w.neighbor_sanctioned_cluster
          ELSE IF RGe(f.highRiskNeighborRatio, Q(4, 10)) THEN w.neighbor_high_risk_cluster
          ELSE IF RGe(f.highRiskNeighborRatio, Q(2, 10))
                  \/ RGe(f.sanctionedNeighborRatio, Q(1, 10))
               THEN w.neighbor_mixed_cluster
          ELSE 0)
         + (IF Truthy(sig, "mixer") THEN RoundHalf(w.neighbor_high_risk_cluster) ELSE 0)

listSignalScore(sig, w) ==
    (IF Truthy(sig, "chainabuse") THEN w.chainabuse_flag ELSE 0)
    + (IF Truthy(sig, "caFraud") THEN w.ca_fraud_flag ELSE 0)
    + (IF Truthy(sig, "scamPlatform") THEN w.scam_platform_flag ELSE 0)
    + (IF Truthy(sig, "mixer") THEN w.mixer_proximity ELSE 0)
    + (IF Truthy(sig, "custodian") THEN w.custodian_wash ELSE 0)

\* 1.0 less a penalty for missing essentials, clamped to [0.2, 1.0]; in percent
computeConfidence(f) ==
    LET missing == (IF ~(f.ageDays > 0) THEN 1 ELSE 0)
                   + (IF ~(f.txCount > 0) THEN 1 ELSE 0)
                   + (IF ~(f.neighborCount >= 0) THEN 1 ELSE 0)
        c == IF missing = 1 THEN 90
             ELSE IF missing = 2 THEN 75
             ELSE IF missing >= 3 THEN 60
             ELSE 100
    IN  clamp(c, 20, 100)

\* ids of the parts with a non-zero impact
buildFactors(parts) == {k \in DOMAIN parts : parts[k] # 0}

runRiskModel(rawFeats, rawSignals, hConfig) ==
    LET h == mergeHeuristics(hConfig)
        f == normalizeFeats(rawFeats)
        w == h.weights
        parts == [age |-> ageScore(f, w),
                  velocity |-> velocityScore(f, w),
                  mix |-> mixScore(f, w),
                  concentration |-> 0,
                  dormant |-> dormantScore(f, w),
                  neighbor |-> neighborScore(f, rawSignals, w),
                  lists |-> listSignalScore(rawSignals, w),
                  governance |-> w.governance_adjust]
        rawContribution == parts.age + parts.velocity + parts.mix + parts.concentration
                           + parts.dormant + parts.neighbor + parts.lists
                           + parts.governance
        boundedContribution == clamp(rawContribution,
                                     h.caps.maxNegativeContribution,
                                     h.caps.maxPositiveContribution)
        score == clamp(h.baseScore + boundedContribution,
                       h.caps.minScore, h.caps.maxScore)
    IN  [score |-> score,
         factors |-> buildFactors(parts),
         baseScore |-> h.baseScore,
         rawContribution |-> rawContribution,
         confidence |-> computeConfidence(f),
         parts |-> parts,
         feats |-> f]

(* ------------------- shared/risk-core: scoreOne ------------------------ *)

WEIGHTS ==
    [sanctionedCounterparty |-> 40, knownMixerProximity |-> 18,
     newAddressAge |-> 8, fanInHigh |-> 10, fanOutHigh |-> 10,
     exchangeCategoryUnverified |-> 8, localRiskyNeighborRatio |-> 14,
     shortestPathToSanctioned |-> 12, hubCentralityRisk |-> 10,
     burstAnomaly |-> 8]

\* optional values: <<>> is null / undefined, <<v>> is v
None == <<>>
Some(v) == <<v>>

scale01(z) == Clamp01R(Q(z, 3))

\* z || 0 for the field k: NaN is falsy
OrZero(f, k) == IF KindOf(f, k) = "NaN" THEN 0 ELSE f[k]

invertAgeDays(days, horizon) ==
    IF days = None THEN R(0)
    ELSE Q(horizon - Min2(days[1], horizon), horizon)

invLen(len, max) == Q(max - Min2(len, max), max)

\* rule.fn(feats) for each rule key
RuleVal(key, f) ==
    CASE key = "sanctionedCounterparty" -> IF f.sanctionHits THEN R(1) ELSE R(0)
      [] key = "knownMixerProximity" -> scale01(OrZero(f, "mixerTaint"))
      [] key = "newAddressAge" -> invertAgeDays(f.ageDays, 14)
      [] key = "fanInHigh" -> scale01(OrZero(f, "fanInZ"))
      [] key = "fanOutHigh" -> scale01(OrZero(f, "fanOutZ"))
      [] key = "exchangeCategoryUnverified" ->
            IF f.category = "exchange_unverified" THEN R(1) ELSE R(0)
      [] key = "localRiskyNeighborRatio" ->
            IF f.local = None THEN R(0) ELSE f.local[1].riskyNeighborRatio
      [] key = "shortestPathToSanctioned" ->
            IF f.local = None \/ f.local[1].shortestPathToSanctioned = 0 THEN R(0)
            ELSE invLen(f.local[1].shortestPathToSanctioned, 6)
      [] key = "hubCentralityRisk" ->
            IF f.local = None THEN R(0)
            ELSE RMul(scale01(f.local[1].centralityZ), f.local[1].riskyFlowRatio)
      [] key = "burstAnomaly" ->
            IF f.anomaly = None THEN R(0) ELSE scale01(f.anomaly[1].burstZ)

\* rule.fn(feats) is NaN: invertAgeDays only tests days == null, so a NaN or
\* a string gives Math.min(days, horizon) = NaN; scale01 divides a string
\* that is no number by 3
RuleIsNaN(key, f) ==
    CASE key = "newAddressAge" -> KindOf(f, "ageDays") \in {"NaN", "text"}
      [] key = "knownMixerProximity" -> KindOf(f, "mixerTaint") = "text"
      [] key = "fanInHigh" -> KindOf(f, "fanInZ") = "text"
      [] key = "fanOutHigh" -> KindOf(f, "fanOutZ") = "text"
      [] OTHER -> FALSE

\* clamp01(val) * w as a count of 1/42 (every rule value is a multiple of 1/42)
Contribution42(key, f) ==
    LET v == Clamp01R(RuleVal(key, f))
    IN  ((v[1] * 42) \div v[2]) * WEIGHTS[key]

RECURSIVE SumOver(_, _, _)
SumOver(keys, f, acc) ==
    IF keys = {} THEN acc
    ELSE LET k == CHOOSE x \in keys : TRUE
         IN  SumOver(keys \ {k}, f, acc + Contribution42(k, f))

labelFromScore(sc) ==
    IF sc >= 80 THEN "High" ELSE IF sc >= 60 THEN "Elevated"
    ELSE IF sc >= 40 THEN "Moderate" ELSE IF sc >= 20 THEN "Low" ELSE "Minimal"

\* the rule loop of scoreOne: raw = sum of clamp01(val) * w, score =
\* Math.max(0, Math.min(100, Math.round(raw)))
\* clamp01(NaN) is NaN, so one NaN rule value makes raw and the score NaN;
\* the result then has scoreNaN in place of an integer score, and the label
\* of a score that passes no >= test
coreScoreOne(f) ==
    LET raw42 == SumOver(DOMAIN WEIGHTS, f, 0)
        score == Max2(0, Min2(100, (2 * raw42 + 42) \div 84))
    IN  IF \E key \in DOMAIN WEIGHTS : RuleIsNaN(key, f)
        THEN [scoreNaN |-> TRUE, label |-> "Minimal", feats |-> f]
        ELSE [score |-> score, label |-> labelFromScore(score), raw42 |-> raw42,
              feats |-> f]

(* ======================= scoring specification ========================= *)

Engines == {"buildRiskResponse", "scoreFromFeatures", "scoreWithLists",
            "scoreAddressModelV1", "runRiskModel", "riskCore", "scoreWallet",
            "scoreWithModel"}

\* engines that look the address up in the three sets themselves
SetEngines == {"buildRiskResponse", "scoreWithLists", "scoreWallet",
               "scoreWithModel"}

BehaviourFeats ==
    {[DefaultFeats EXCEPT !.ageDays = a, !.txPerDay = t, !.burstScore = b,
                          !.uniqueCounterparties = u, !.topCounterpartyShare = s,
                          !.neighborCount = n] :
        a \in AgeVals, t \in TpdVals, b \in BurstVals,
        u \in UniqVals, s \in ShareVals, n \in NeighborVals}

DormantFeats ==
    {[f EXCEPT !.isDormant = d] : f \in BehaviourFeats, d \in BOOLEAN}

LibFeats ==
    {[f EXCEPT !.riskyNeighborRatio = r, !.mixerProximity = r] :
        f \in BehaviourFeats, r \in {R(0), Q(1, 2)}}

\* (txCount, activeDays) pairs: none, sparse, normal, high, extreme
ActivityVals == {<<0, 0>>, <<1, 30>>, <<10, 10>>, <<100, 10>>, <<500, 10>>}
MixVals == {<<0, R(0)>>, <<3, Q(95, 100)>>, <<30, Q(1, 10)>>}
DormancyVals == {<<FALSE, 0, FALSE>>, <<TRUE, 40, TRUE>>}
ClusterVals == {<<0, R(0), R(0)>>, <<12, Q(1, 2), Q(7, 10)>>, <<12, R(0), Q(3, 2)>>}

EnsembleFeats ==
    {[DefaultFeats EXCEPT !.ageDays = a,
                          !.txCount = t[1], !.activeDays = t[2],
                          !.burstScore = b,
                          !.uniqueCounterparties = m[1], !.topCounterpartyShare = m[2],
                          !.isDormant = d[1], !.dormantDays = d[2],
                          !.resurrectedRecently = d[3],
                          !.neighborCount = c[1], !.sanctionedNeighborRatio = c[2],
                          !.highRiskNeighborRatio = c[3],
                          !.dormantNeighborRatio = c[3]] :
        a \in AgeVals, t \in ActivityVals, b \in {R(0), Q(3, 2)},
        m \in MixVals, d \in DormancyVals, c \in ClusterVals}

\* feature vectors handed to scoreWallet
WalletDormancy == {<<FALSE, 0, FALSE>>, <<TRUE, 400, FALSE>>, <<FALSE, 0, TRUE>>}

WalletFeats ==
    {[DefaultFeats EXCEPT !.ageDays = a, !.txCount = t, !.burstScore = b,
                          !.uniqueCounterparties = u, !.topCounterpartyShare = s,
                          !.neighborCount = n,
                          !.isDormant = d[1], !.dormantDays = d[2],
                          !.resurrectedRecently = d[3]] :
        a \in {3, 100, 400, 1000}, t \in {10, 30}, b \in BurstVals,
        u \in {1, 30}, s \in {R(0), Q(95, 100)}, n \in NeighborVals,
        d \in WalletDormancy}

\* feature vectors handed to scoreWithModel
NeighborRatios == {<<R(0), R(0)>>, <<R(0), Q(2, 10)>>, <<R(0), Q(1, 2)>>,
                   <<Q(2, 10), R(0)>>}

ModelFeats ==
    {[DefaultFeats EXCEPT !.ageDays = a, !.txPerDay = t,
                          !.uniqueCounterparties = u, !.topCounterpartyShare = s,
                          !.sanctionedNeighborRatio = r[1],
                          !.highRiskNeighborRatio = r[2]] :
        a \in {3, 29, 100, 400, 1000}, t \in TpdVals \cup {R(1)},
        u \in UniqVals, s \in ShareVals, r \in NeighborRatios}

FeatsFor(e) ==
    CASE e \in {"buildRiskResponse", "scoreFromFeatures"} -> BehaviourFeats
      [] e = "scoreWithLists" -> DormantFeats
      [] e = "scoreAddressModelV1" -> LibFeats
      [] e = "runRiskModel" -> EnsembleFeats
      [] e = "scoreWallet" -> WalletFeats
      [] e = "scoreWithModel" -> ModelFeats
      [] OTHER -> {DefaultFeats}

AllWeights(v) == [k \in DOMAIN DefaultWeights |-> v]

\* weight-table overrides handed to runRiskModel
HeuristicsSet == {[none |-> TRUE],
                  [weights |-> AllWeights(40)],
                  [weights |-> AllWeights(-40)],
                  [weights |-> [age_very_old |-> 30]]}

SignalsFor(e) ==
    CASE e = "scoreFromFeatures" ->
            [ofacHit : BOOLEAN, mixer : BOOLEAN, scamCluster : BOOLEAN]
      [] e = "scoreAddressModelV1" ->
            [ofacHit : BOOLEAN, tornadoHit : BOOLEAN, scamClusterHit : BOOLEAN]
      [] e = "runRiskModel" ->
            {[ofacHit |-> o, chainabuse |-> c, caFraud |-> c, scamPlatform |-> c,
              mixer |-> m, custodian |-> ~c] :
                o \in {FALSE}, c \in BOOLEAN, m \in BOOLEAN}
      [] OTHER -> {[none |-> TRUE]}

ListSets == {{Other}, {Subject, Other}}

LocalVals ==
    {None,
     Some([riskyNeighborRatio |-> Q(1, 2), shortestPathToSanctioned |-> 0,
           centralityZ |-> 0, riskyFlowRatio |-> R(0)]),
     Some([riskyNeighborRatio |-> Q(3, 2), shortestPathToSanctioned |-> 2,
           centralityZ |-> 6, riskyFlowRatio |-> R(1)]),
     Some([riskyNeighborRatio |-> R(0), shortestPathToSanctioned |-> 9,
           centralityZ |-> 2, riskyFlowRatio |-> Q(1, 2)])}

DefaultCore ==
    [sanctionHits |-> FALSE, mixerTaint |-> 0, ageDays |-> None,
     fanInZ |-> 0, fanOutZ |-> 0, category |-> "wallet",
     local |-> None, anomaly |-> None]

CoreFeatsSet ==
    [sanctionHits : BOOLEAN, mixerTaint : {0, 2, 6}, ageDays : {None, Some(0), Some(7), Some(30)},
     fanInZ : {0, 3}, fanOutZ : {-3, 1}, category : {"wallet", "exchange_unverified"},
     local : LocalVals, anomaly : {None, Some([burstZ |-> 2])}]

ScoreInit ==
    \E e \in Engines :
        /\ engine = e
        /\ feats \in FeatsFor(e)
        /\ coreFeats \in (IF e = "riskCore" THEN CoreFeatsSet ELSE {DefaultCore})
        /\ heuristics \in (IF e = "runRiskModel" THEN HeuristicsSet ELSE {[none |-> TRUE]})
        /\ ofacSet \in (IF e \in SetEngines THEN ListSets ELSE {{}})
        /\ tornadoSet \in (IF e \in SetEngines THEN ListSets ELSE {{}})
        /\ scamSet \in (IF e \in SetEngines THEN ListSets ELSE {{}})
        /\ signals \in SignalsFor(e)
        /\ res = NoRes

Pending(e) == engine = e /\ res = NoRes

Returns(r) ==
    /\ res' = r
    /\ UNCHANGED <<engine, feats, coreFeats, heuristics, ofacSet, tornadoSet,
                   scamSet, signals>>
    /\ UNCHANGED batchVars
    /\ UNCHANGED cacheVars
    /\ UNCHANGED httpVars
    /\ UNCHANGED listsVars
    /\ UNCHANGED graphVars
    /\ UNCHANGED lruVars
    /\ UNCHANGED mainVars
    /\ UNCHANGED featVars

BuildRiskResponse ==
    /\ Pending("buildRiskResponse")
    /\ Returns(RiskResponseV163(Subject, feats, ofacSet, tornadoSet, scamSet))

ScoreFromFeatures ==
    /\ Pending("scoreFromFeatures")
    /\ Returns(scoreFromFeatures(feats, signals))

ScoreWithLists ==
    /\ Pending("scoreWithLists")
    /\ Returns(scoreWithLists(Subject, feats, ofacSet, tornadoSet, scamSet))

ScoreAddressModelV1 ==
    /\ Pending("scoreAddressModelV1")
    /\ Returns(scoreAddressModelV1(feats, signals))

RunRiskModel ==
    /\ Pending("runRiskModel")
    /\ Returns(runRiskModel(feats, signals, heuristics))

CoreScoreOne ==
    /\ Pending("riskCore")
    /\ Returns(coreScoreOne(coreFeats))

ScoreWithModel ==
    /\ Pending("scoreWithModel")
    /\ Returns(scoreWithModel(Subject, feats, ofacSet, tornadoSet, scamSet))

ScoreWallet ==
    /\ Pending("scoreWallet")
    /\ Returns(scoreWallet(Subject, feats, ofacSet, tornadoSet, scamSet))

ScoreNext ==
    \/ BuildRiskResponse
    \/ ScoreFromFeatures
    \/ ScoreWithLists
    \/ ScoreAddressModelV1
    \/ RunRiskModel
    \/ CoreScoreOne
    \/ ScoreWallet
    \/ ScoreWithModel

(* ========================= batch scheduling ============================ *)

MaxItems == 3
MaxConc == 2

Keys == {"0xaa", "0xbb"}

DefaultConcurrency == 6
DefaultWorkerConcurrency == 6
FallbackWorkerConcurrency == 4
DefaultLoopConcurrency == 8

BatchImpls == {"riskCore", "workerPool", "workerLoop"}

RECURSIVE SeqsUpTo(_, _)
SeqsUpTo(S, n) ==
    IF n = 0 THEN {<<>>}
    ELSE LET shorter == SeqsUpTo(S, n - 1)
         IN  shorter \cup {Append(t, x) : t \in {u \in shorter : Len(u) = n - 1}, x \in S}

\* what the adapter reports for an address
AdapterFeats(id) ==
    IF id = "0xaa" THEN DefaultCore
    ELSE [DefaultCore EXCEPT !.sanctionHits = TRUE, !.ageDays = Some(0)]

\* the value scoreOne resolves to for an item
ScoreResult(id) == [id |-> id, score |-> coreScoreOne(AdapterFeats(id)).score]

NoOut == [empty |-> TRUE]

\* ctx?.concurrency || 6
CoreConcurrency(c) == IF c # 0 THEN c ELSE DefaultConcurrency

\* CFG.concurrency after INIT, then CFG.concurrency || 4
WorkerConcurrency(c) ==
    LET cfg == IF c # 0 THEN c ELSE DefaultWorkerConcurrency
    IN  IF cfg # 0 THEN cfg ELSE FallbackWorkerConcurrency

\* part_001: CFG.concurrency, which its SCORE_BATCH loop never reads
LoopConcurrency(c) == IF c # 0 THEN c ELSE DefaultLoopConcurrency

N == Len(items)
Idx == 1..N

BatchIdle ==
    /\ bImpl = "none" /\ items = <<>> /\ conc = 0 /\ bpc = "idle"
    /\ q = <<>> /\ active = 0 /\ index = 0 /\ wk = <<>> /\ st = <<>>
    /\ out = <<>> /\ posted = <<>> /\ SCORE_CACHE = {} /\ settled = <<>>

ScoreIdle ==
    /\ engine = "none" /\ feats = DefaultFeats /\ coreFeats = DefaultCore
    /\ heuristics = [none |-> TRUE] /\ ofacSet = {} /\ tornadoSet = {}
    /\ scamSet = {} /\ signals = [none |-> TRUE] /\ res = NoRes

BatchInit ==
    /\ bImpl \in BatchImpls
    /\ items \in SeqsUpTo(Keys, MaxItems)
    /\ conc \in 0..MaxConc
    /\ bpc = "init"
    /\ q = <<>> /\ active = 0 /\ index = 0 /\ wk = <<>>
    /\ st = [i \in 1..Len(items) |-> "queued"]
    /\ out = <<>> /\ posted = <<>> /\ SCORE_CACHE = {} /\ settled = <<>>

(* ---- shared/risk-core: pLimit and scoreBatch ---- *)

CanStartUnlimited(queue, act, limit) == Len(queue) # 0

\* next(): if(!q.length || active>=conc) return; otherwise a task is started
CanStart(queue, act, limit) == ~(Len(queue) = 0 \/ act >= limit)

\* the state of the limiter after limit(fn) was called for every index of
\* todo in turn: each call pushes the task and runs next() once
RECURSIVE Enqueue(_, _, _, _, _)
Enqueue(todo, queue, act, status, limit) ==
    IF todo = <<>> THEN [q |-> queue, active |-> act, st |-> status]
    ELSE LET pushed == Append(queue, Head(todo))
         IN  IF CanStart(pushed, act, limit)
             THEN Enqueue(Tail(todo), Tail(pushed), act + 1,
                          [status EXCEPT ![Head(pushed)] = "running"], limit)
             ELSE Enqueue(Tail(todo), pushed, act, status, limit)

StoreResultInArrivalOrder(o, i, r) ==
    LET free == {k \in DOMAIN o : o[k] = NoOut}
    IN  [o EXCEPT ![CHOOSE k \in free : \A m \in free : k <= m] = r]

\* out[i] = await scoreOne(it, ctx)
StoreResult(o, i, r) == [o EXCEPT ![i] = r]

\* Promise.all over the tasks: rejected by the first failure, fulfilled when
\* every task is fulfilled, pending otherwise
PromiseAll(pc, status) ==
    IF pc # "running" THEN pc
    ELSE IF \E i \in DOMAIN status : status[i] = "failed" THEN "rejected"
    ELSE IF \A i \in DOMAIN status : status[i] = "ok" THEN "returned"
    ELSE "running"

\* scoreBatch up to its await: out = new Array(n), every task handed to limit
CoreBatchStart ==
    /\ bImpl = "riskCore" /\ bpc = "init"
    /\ LET l == Enqueue([i \in Idx |-> i], <<>>, 0, st, CoreConcurrency(conc))
       IN  /\ q' = l.q /\ active' = l.active /\ st' = l.st
           /\ bpc' = PromiseAll("running", l.st)
    /\ out' = [i \in Idx |-> NoOut]
    /\ UNCHANGED <<bImpl, items, conc, index, wk, posted, SCORE_CACHE>>
    /\ settled' = settled
    /\ UNCHANGED scoreVars
    /\ UNCHANGED cacheVars
    /\ UNCHANGED httpVars
    /\ UNCHANGED listsVars
    /\ UNCHANGED graphVars
    /\ UNCHANGED lruVars
    /\ UNCHANGED mainVars
    /\ UNCHANGED featVars

\* a running task settles: the result is stored (or the task rejects), then
\* the finally handler runs active-- and next()
CoreSettle(i, ok) ==
    /\ bImpl = "riskCore" /\ bpc # "init"
    /\ i \in Idx /\ st[i] = "running"
    /\ LET st1 == [st EXCEPT ![i] = IF ok THEN "ok" ELSE "failed"]
           start == CanStart(q, active - 1, CoreConcurrency(conc))
           st2 == IF start THEN [st1 EXCEPT ![Head(q)] = "running"] ELSE st1
       IN  /\ st' = st2
           /\ q' = IF start THEN Tail(q) ELSE q
           /\ active' = IF start THEN active ELSE active - 1
           /\ bpc' = PromiseAll(bpc, st2)
    /\ out' = IF ok THEN StoreResult(out, i, ScoreResult(items[i])) ELSE out
    /\ UNCHANGED <<bImpl, items, conc, index, wk, posted, SCORE_CACHE>>
    /\ settled' = Append(settled, i)
    /\ UNCHANGED scoreVars
    /\ UNCHANGED cacheVars
    /\ UNCHANGED httpVars
    /\ UNCHANGED listsVars
    /\ UNCHANGED graphVars
    /\ UNCHANGED lruVars
    /\ UNCHANGED mainVars
    /\ UNCHANGED featVars

CoreSettleOk == \E i \in Idx : CoreSettle(i, TRUE)
CoreSettleFail == \E i \in Idx : CoreSettle(i, FALSE)

(* ---- visionRisk.worker.js v1.6 (part_003): streaming worker pool ---- *)

Msg(type, id) == [type |-> type, id |-> id]

\* scoreOne up to its first await: a cached result is returned without a
\* fetch, otherwise the /score request is in flight
ScoreOneBegins(id, cache) == IF id \in cache THEN "hit" ELSE "running"

\* next(): const myIndex = index++; if (myIndex >= items.length) return;
\* otherwise scoreOne(items[myIndex]) is awaited.  Run for the workers of
\* todo in turn; index counts the increments so far.
RECURSIVE PoolTake(_, _, _, _, _)
PoolTake(todo, idx, workers, status, cache) ==
    IF todo = <<>> THEN [index |-> idx, wk |-> workers, st |-> status]
    ELSE LET w == Head(todo)
             my == idx + 1
         IN  IF my > N
             THEN PoolTake(Tail(todo), idx + 1, [workers EXCEPT ![w] = -1], status, cache)
             ELSE PoolTake(Tail(todo), idx + 1, [workers EXCEPT ![w] = my],
                           [status EXCEPT ![my] = ScoreOneBegins(items[my], cache)],
                           cache)

\* DONE as soon as one worker has returned
PoolDoneOnFirstReturn(workers, msgs) ==
    IF \E w \in DOMAIN workers : workers[w] = -1
    THEN [bpc |-> "done", posted |-> Append(msgs, Msg("DONE", ""))]
    ELSE [bpc |-> "running", posted |-> msgs]

\* await Promise.all(workers); post DONE
PoolDone(workers, msgs) ==
    IF \A w \in DOMAIN workers : workers[w] = -1
    THEN [bpc |-> "done", posted |-> Append(msgs, Msg("DONE", ""))]
    ELSE [bpc |-> "running", posted |-> msgs]

PoolBatchStart ==
    /\ bImpl = "workerPool" /\ bpc = "init"
    /\ IF N = 0
       THEN /\ posted' = Append(posted, Msg("DONE", ""))
            /\ bpc' = "done"
            /\ UNCHANGED <<index, wk, st>>
       ELSE LET W == Min2(WorkerConcurrency(conc), N)
                t == PoolTake([w \in 1..W |-> w], 0, [w \in 1..W |-> 0], st, SCORE_CACHE)
            IN  /\ index' = t.index /\ wk' = t.wk /\ st' = t.st
                /\ bpc' = "running"
                /\ posted' = posted
    /\ UNCHANGED <<bImpl, items, conc, q, active, out, SCORE_CACHE>>
    /\ settled' = settled
    /\ UNCHANGED scoreVars
    /\ UNCHANGED cacheVars
    /\ UNCHANGED httpVars
    /\ UNCHANGED listsVars
    /\ UNCHANGED graphVars
    /\ UNCHANGED lruVars
    /\ UNCHANGED mainVars
    /\ UNCHANGED featVars

\* the scoreOne a worker awaits settles: its result is streamed, or the error
\* is logged; then the worker calls next() again
PoolSettle(w, ok) ==
    /\ bImpl = "workerPool" /\ bpc = "running"
    /\ w \in DOMAIN wk /\ wk[w] > 0
    /\ st[wk[w]] = "hit" => ok
    /\ LET i == wk[w]
           cache == IF ok THEN SCORE_CACHE \cup {items[i]} ELSE SCORE_CACHE
           msgs == IF ok
                   THEN Append(posted, Msg("RESULT_STREAM", ScoreResult(items[i]).id))
                   ELSE posted
           t == PoolTake(<<w>>, index, wk,
                         [st EXCEPT ![i] = IF ok THEN "ok" ELSE "failed"], cache)
           d == PoolDone(t.wk, msgs)
       IN  /\ SCORE_CACHE' = cache
           /\ index' = t.index /\ wk' = t.wk /\ st' = t.st
           /\ bpc' = d.bpc /\ posted' = d.posted
    /\ UNCHANGED <<bImpl, items, conc, q, active, out>>
    /\ settled' = Append(settled, wk[w])
    /\ UNCHANGED scoreVars
    /\ UNCHANGED cacheVars
    /\ UNCHANGED httpVars
    /\ UNCHANGED listsVars
    /\ UNCHANGED graphVars
    /\ UNCHANGED lruVars
    /\ UNCHANGED mainVars
    /\ UNCHANGED featVars

PoolSettleOk == \E w \in DOMAIN wk : PoolSettle(w, TRUE)
PoolSettleFail == \E w \in DOMAIN wk : PoolSettle(w, FALSE)

(* ---- visionRisk.worker.js v1.6.3 (part_001): SCORE_BATCH loop ---- *)

\* the for loop reaches item i: scoreOne(items[i]) is awaited, or the loop
\* is over and DONE is posted
LoopAt(i, status, cache, msgs) ==
    IF i > N
    THEN [bpc |-> "done", index |-> i, st |-> status,
          posted |-> Append(msgs, Msg("DONE", ""))]
    ELSE [bpc |-> "running", index |-> i,
          st |-> [status EXCEPT ![i] = ScoreOneBegins(items[i], cache)],
          posted |-> msgs]

LoopBatchStart ==
    /\ bImpl = "workerLoop" /\ bpc = "init"
    /\ LET l == LoopAt(1, st, SCORE_CACHE, posted)
       IN  /\ bpc' = l.bpc /\ index' = l.index /\ st' = l.st /\ posted' = l.posted
    /\ UNCHANGED <<bImpl, items, conc, q, active, wk, out, SCORE_CACHE>>
    /\ settled' = settled
    /\ UNCHANGED scoreVars
    /\ UNCHANGED cacheVars
    /\ UNCHANGED httpVars
    /\ UNCHANGED listsVars
    /\ UNCHANGED graphVars
    /\ UNCHANGED lruVars
    /\ UNCHANGED mainVars
    /\ UNCHANGED featVars

\* the awaited scoreOne resolves: the result is streamed and the loop goes on
LoopSettleOk ==
    /\ bImpl = "workerLoop" /\ bpc = "running"
    /\ LET cache == SCORE_CACHE \cup {items[index]}
           l == LoopAt(index + 1, [st EXCEPT ![index] = "ok"], cache,
                       Append(posted, Msg("RESULT_STREAM", ScoreResult(items[index]).id)))
       IN  /\ SCORE_CACHE' = cache
           /\ bpc' = l.bpc /\ index' = l.index /\ st' = l.st /\ posted' = l.posted
    /\ UNCHANGED <<bImpl, items, conc, q, active, wk, out>>
    /\ settled' = Append(settled, index)
    /\ UNCHANGED scoreVars
    /\ UNCHANGED cacheVars
    /\ UNCHANGED httpVars
    /\ UNCHANGED listsVars
    /\ UNCHANGED graphVars
    /\ UNCHANGED lruVars
    /\ UNCHANGED mainVars
    /\ UNCHANGED featVars

\* the awaited scoreOne throws: the handler's catch posts ERROR and the loop
\* is abandoned
LoopSettleFail ==
    /\ bImpl = "workerLoop" /\ bpc = "running"
    /\ st[index] = "running"
    /\ st' = [st EXCEPT ![index] = "failed"]
    /\ posted' = Append(posted, Msg("ERROR", ""))
    /\ bpc' = "error"
    /\ UNCHANGED <<bImpl, items, conc, q, active, index, wk, out, SCORE_CACHE>>
    /\ settled' = Append(settled, index)
    /\ UNCHANGED scoreVars
    /\ UNCHANGED cacheVars
    /\ UNCHANGED httpVars
    /\ UNCHANGED listsVars
    /\ UNCHANGED graphVars
    /\ UNCHANGED lruVars
    /\ UNCHANGED mainVars
    /\ UNCHANGED featVars

(* ==================== transaction histories, features ================== *)

\* Date.now() of the request, in days
NowDay == 1000

\* syntheticTx: timeStampMs: now - 365 * DAY_MS
SyntheticAgeDays == 365

Peer1 == <<"0", "x", "1">>
Peer2 == <<"0", "x", "2">>

Tx(from, to, ts) == [from |-> from, to |-> to, ts |-> ts]

\* x || now for a timestamp
TsOr(ts, now) == IF ts = 0 THEN now ELSE ts

SetMax(S) == CHOOSE x \in S : \A y \in S : y <= x
SetMin(S) == CHOOSE x \in S : \A y \in S : x <= y

\* Array.prototype.sort with (a, b) => a.ts - b.ts: ascending and stable
RECURSIVE InsertByTs(_, _)
InsertByTs(sorted, tx) ==
    IF sorted = <<>> THEN <<tx>>
    ELSE IF sorted[Len(sorted)].ts <= tx.ts THEN Append(sorted, tx)
    ELSE Append(InsertByTs(SubSeq(sorted, 1, Len(sorted) - 1), tx), sorted[Len(sorted)])

RECURSIVE SortByTs(_)
SortByTs(list) ==
    IF list = <<>> THEN <<>>
    ELSE InsertByTs(SortByTs(SubSeq(list, 1, Len(list) - 1)), list[Len(list)])

\* the largest number of transactions on one day
MaxPerDay(list, now) ==
    LET days == {TsOr(list[i].ts, now) : i \in DOMAIN list}
    IN  SetMax({Cardinality({i \in DOMAIN list : TsOr(list[i].ts, now) = d}) : d \in days})

\* counterparty statistics over cps, the sequence of None or Some(address)
\* found for each transaction
CpCount(cps, a) == Cardinality({i \in DOMAIN cps : cps[i] = Some(a)})
CpSet(cps) == {cps[i][1] : i \in {j \in DOMAIN cps : cps[j] # None}}
CpMax(cps) ==
    IF CpSet(cps) = {} THEN 0
    ELSE SetMax({CpCount(cps, a) : a \in CpSet(cps)})

\* the all-zero vector the extractors return or start from
ZeroFeats ==
    [ageDays |-> 0, txCount |-> 0, activeDays |-> 0,
     txPerDay |-> R(0), burstScore |-> R(0),
     uniqueCounterparties |-> 0, topCounterpartyShare |-> R(0),
     isDormant |-> FALSE, dormantDays |-> 0, resurrectedRecently |-> FALSE,
     neighborCount |-> 0,
     sanctionedNeighborRatio |-> R(0), highRiskNeighborRatio |-> R(0),
     dormantNeighborRatio |-> R(0), riskyNeighborRatio |-> R(0),
     mixerProximity |-> R(0), custodianExposure |-> R(0),
     scamPlatformExposure |-> R(0)]

(* ---- server.worker.js v1.6.3 ---- *)

syntheticTx(address, now) == <<Tx(address, address, now - SyntheticAgeDays)>>

\* other = (from === addr ? to : (to === addr ? from : null)), kept when it
\* is non-empty and not the address itself
CounterpartyV163(addr, tx) ==
    LET other == IF tx.from = addr THEN tx.to
                 ELSE IF tx.to = addr THEN tx.from ELSE <<>>
    IN  IF other # <<>> /\ other # addr THEN Some(other) ELSE None

\* the history deriveFeaturesFromTx works on
HistoryV163(addr, txs, now) ==
    SortByTs(IF txs # <<>> THEN txs ELSE syntheticTx(addr, now))

deriveFeaturesFromTx(addr, txs, now) ==
    LET list == HistoryV163(addr, txs, now)
        cps == [i \in DOMAIN list |-> CounterpartyV163(addr, list[i])]
        firstSeen == TsOr(list[1].ts, now)
        lastSeen == TsOr(list[Len(list)].ts, now)
        txCount == Len(list)
        activeDays == Cardinality({TsOr(list[i].ts, now) : i \in DOMAIN list})
        maxPerDay == MaxPerDay(list, now)
        \* (maxPerDay / txPerDay - 1) / 9 with txPerDay = txCount / activeDays
        burstRaw == Q(maxPerDay * activeDays - txCount, 9 * txCount)
    IN  [ZeroFeats EXCEPT
            !.ageDays = Max2(0, now - firstSeen),
            !.txCount = txCount,
            !.activeDays = activeDays,
            !.txPerDay = Q(txCount, activeDays),
            !.burstScore = Clamp01R(burstRaw),
            !.uniqueCounterparties = Cardinality(CpSet(cps)),
            !.topCounterpartyShare = Q(CpMax(cps), txCount),
            !.dormantDays = now - lastSeen,
            !.neighborCount = Cardinality(CpSet(cps))]

(* ---- server.worker.js v1.6.4 ---- *)

\* if (from === addr && to && to !== addr) other = to;
\* else if (to === addr && from && from !== addr) other = from;
CounterpartyV164(addr, tx) ==
    IF tx.from = addr /\ tx.to # <<>> /\ tx.to # addr THEN Some(tx.to)
    ELSE IF tx.to = addr /\ tx.from # <<>> /\ tx.from # addr THEN Some(tx.from)
    ELSE None

buildFeatures(addr, txs, now) ==
    IF txs = <<>> THEN ZeroFeats
    ELSE
    LET list == SortByTs(txs)
        cps == [i \in DOMAIN list |-> CounterpartyV164(addr, list[i])]
        firstTs == TsOr(list[1].ts, now)
        lastTs == TsOr(list[Len(list)].ts, now)
        ageDays == now - firstTs
        spanDays == Max2(1, lastTs - firstTs)
        txCount == Len(list)
        maxPerDay == MaxPerDay(list, now)
        \* clamp(maxPerDay / txPerDay, 0, 10) / 10 with txPerDay = txCount / spanDays
        ratio == Q(maxPerDay * spanDays, txCount)
        burst == IF RGt(ratio, R(10)) THEN R(1) ELSE Q(ratio[1], 10 * ratio[2])
        uniq == Cardinality(CpSet(cps))
        counted == Cardinality({i \in DOMAIN cps : cps[i] # None})
        totalCpTx == IF counted = 0 THEN 1 ELSE counted
        daysSinceLast == now - lastTs
        isDormant == ageDays > 180 /\ daysSinceLast > 90
    IN  [ZeroFeats EXCEPT
            !.ageDays = ageDays,
            !.txCount = txCount,
            !.activeDays = spanDays,
            !.txPerDay = Q(txCount, spanDays),
            !.burstScore = burst,
            !.uniqueCounterparties = uniq,
            !.topCounterpartyShare = Q(CpMax(cps), totalCpTx),
            !.isDormant = isDormant,
            !.dormantDays = daysSinceLast,
            !.resurrectedRecently = (~isDormant /\ daysSinceLast < 14 /\ ageDays > 60),
            !.neighborCount = uniq]

(* ---- visionRisk.worker.js (RXL-V1.6.2 server) ---- *)

\* the synthetic baseline of deriveFeaturesFromTxs: ageDays: 365
BaselineAgeDays == 365

\* if (from === center && to) cp = to; else if (to === center && from) cp = from;
CounterpartyV162(center, tx) ==
    IF tx.from = center /\ tx.to # <<>> THEN Some(tx.to)
    ELSE IF tx.to = center /\ tx.from # <<>> THEN Some(tx.from)
    ELSE None

\* timestamps of provider data are positive here, so the filter(Boolean) of
\* the source keeps every one of them
deriveFeaturesFromTxs(txs, now) ==
    IF txs = <<>> THEN [ZeroFeats EXCEPT !.ageDays = BaselineAgeDays]
    ELSE
    LET stamps == {txs[i].ts : i \in DOMAIN txs} \ {0}
        firstTs == SetMin(stamps)
        lastTs == SetMax(stamps)
        cps == [i \in DOMAIN txs |-> CounterpartyV162(txs[1].from, txs[i])]
        spanDays == Max2(1, lastTs - firstTs)
        txCount == Len(txs)
        uniq == Cardinality(CpSet(cps))
    IN  [ZeroFeats EXCEPT
            !.ageDays = Max2(0, now - firstTs),
            !.txCount = txCount,
            !.activeDays = spanDays,
            !.txPerDay = Q(txCount, spanDays),
            !.burstScore = Q(MaxPerDay(txs, firstTs) * spanDays, txCount),
            !.uniqueCounterparties = uniq,
            !.topCounterpartyShare = Q(CpMax(cps), txCount),
            !.neighborCount = uniq]

computeRisk(f, ofacHit, inTornado, inScam) ==
    LET age == f.ageDays
        ageImpact == IF age < 7 THEN 25
                     ELSE IF age < 30 THEN 18
                     ELSE IF age < 180 THEN 10
                     ELSE IF age < 730 THEN 2
                     ELSE -8
        velImpact ==
            IF RGt(f.txPerDay, R(25)) \/ RGt(f.burstScore, R(3)) THEN 22
            ELSE IF RGt(f.txPerDay, R(5)) \/ RGt(f.burstScore, R(2)) THEN 12
            ELSE IF RGt(f.txPerDay, R(1)) THEN 4
            ELSE 0
        mixImpact ==
            IF f.uniqueCounterparties <= 2 /\ f.txCount > 20 THEN 14
            ELSE IF f.uniqueCounterparties <= 5 /\ f.txCount > 50 THEN 8
            ELSE IF f.uniqueCounterparties >= 20 /\ RLt(f.topCounterpartyShare, Q(2, 10))
                 THEN -4
            ELSE 0
        neighborImpact == IF f.uniqueCounterparties > 10 THEN 3 ELSE 0
        listImpact == (IF ofacHit THEN 70 ELSE 0) + (IF inTornado THEN 25 ELSE 0)
                      + (IF inScam THEN 25 ELSE 0)
        contribution == ageImpact + velImpact + mixImpact + neighborImpact + listImpact
        parts == [age |-> ageImpact, velocity |-> velImpact, mix |-> mixImpact,
                  neighbor |-> neighborImpact, lists |-> listImpact,
                  concentration |-> 0, dormant |-> 0, governance |-> 0]
    IN  [score |-> clamp(BaseScore + contribution, 0, 100),
         parts |-> parts,
         baseScore |-> BaseScore,
         rawContribution |-> contribution,
         confidence |-> 100]

\* handleScore: the response built around computeRisk
handleScoreResponse(address, f, ofac, tornado, scam) ==
    LET ofacHit == address \in ofac
        inTornado == address \in tornado
        inScam == address \in scam
        r == computeRisk(f, ofacHit, inTornado, inScam)
    IN  [score |-> r.score,
         block |-> (ofacHit \/ inTornado \/ r.score >= 95),
         baseScore |-> r.baseScore, rawContribution |-> r.rawContribution,
         confidence |-> r.confidence, parts |-> r.parts,
         sanctionHits |-> IF ofacHit THEN 1 ELSE 0,
         feats |-> f]

(* ============================== caches ================================= *)

MaxClock == 11
MaxPending == 1

\* TTLs in minutes
TX_CACHE_TTL == 5
SCORE_TTL_MS == 10

CacheImpls == {"txCache", "SCORE_CACHE", "scoreCache"}

NoRequest == [none |-> TRUE]

CacheIdle ==
    /\ cImpl = "none" /\ configured = FALSE /\ clock = 0
    /\ entries = [k \in Keys |-> None] /\ pending = {}
    /\ insertedAt = [k \in Keys |-> None] /\ last = NoRequest

CacheInit ==
    /\ cImpl \in CacheImpls
    /\ configured \in BOOLEAN
    /\ clock = 0
    /\ entries = [k \in Keys |-> None]
    /\ pending = {}
    /\ insertedAt = [k \in Keys |-> None]
    /\ last = NoRequest

\* the cache test of each implementation:
\*   txCache      cached && (now - cached.ts) < TX_CACHE_TTL
\*   SCORE_CACHE  cached && Date.now() - cached.ts < SCORE_TTL_MS
\*   scoreCache   if (cached)
CacheHit(impl, entry, now) ==
    /\ entry # None
    /\ IF impl = "txCache" THEN now - entry[1].ts < TX_CACHE_TTL
       ELSE IF impl = "SCORE_CACHE" THEN now - entry[1].ts < SCORE_TTL_MS
       ELSE TRUE

\* the timestamp stored with a fetched result:
\*   txCache      txCache.set(key, { ts: now, data: txs }), now read before the fetch
\*   SCORE_CACHE  SCORE_CACHE.set(cacheKey, { ts: Date.now(), res })
\*   scoreCache   scoreCache.set(cacheKey, result), no timestamp
EntryFor(impl, startedAt, time, data) ==
    IF impl = "txCache" THEN [ts |-> startedAt, data |-> data]
    ELSE IF impl = "SCORE_CACHE" THEN [ts |-> time, data |-> data]
    ELSE [data |-> data]

\* txCache tests the key before the cache, the workers test apiBase after it
RequestOutcome(impl, conf, entry, now) ==
    IF impl = "txCache"
    THEN IF ~conf THEN "failed"
         ELSE IF CacheHit(impl, entry, now) THEN "hit" ELSE "fetch"
    ELSE IF CacheHit(impl, entry, now) THEN "hit"
         ELSE IF ~conf THEN "failed" ELSE "fetch"

\* the TTL the claim speaks of; the v1.6.3 worker's cache never expires
WithinTTL(impl, age) ==
    IF impl = "txCache" THEN age < TX_CACHE_TTL
    ELSE IF impl = "SCORE_CACHE" THEN age < SCORE_TTL_MS
    ELSE TRUE

CacheTick ==
    /\ cImpl \in CacheImpls
    /\ clock < MaxClock
    /\ clock' = clock + 1
    /\ UNCHANGED <<cImpl, configured, entries, pending, insertedAt, last>>
    /\ UNCHANGED scoreVars
    /\ UNCHANGED batchVars
    /\ UNCHANGED httpVars
    /\ UNCHANGED listsVars
    /\ UNCHANGED graphVars
    /\ UNCHANGED lruVars
    /\ UNCHANGED mainVars
    /\ UNCHANGED featVars

\* a request for key k runs up to its first await (or to its return)
CacheRequest(k) ==
    /\ cImpl \in CacheImpls
    /\ LET o == RequestOutcome(cImpl, configured, entries[k], clock)
       IN  /\ o = "fetch" => Cardinality(pending) < MaxPending
           /\ pending' = IF o = "fetch"
                         THEN pending \cup {[key |-> k, now |-> clock]}
                         ELSE pending
           /\ last' = [key |-> k,
                       outcome |-> o,
                       result |-> IF o = "hit" THEN <<entries[k][1].data>> ELSE None,
                       sinceInsert |-> IF insertedAt[k] = None THEN None
                                       ELSE Some(clock - insertedAt[k][1])]
    /\ UNCHANGED <<cImpl, configured, clock, entries, insertedAt>>
    /\ UNCHANGED scoreVars
    /\ UNCHANGED batchVars
    /\ UNCHANGED httpVars
    /\ UNCHANGED listsVars
    /\ UNCHANGED graphVars
    /\ UNCHANGED lruVars
    /\ UNCHANGED mainVars
    /\ UNCHANGED featVars

CacheRequestAny == \E k \in Keys : CacheRequest(k)

\* the upstream answers a fetch with data: the result is stored and returned
CacheReplyOk ==
    \E f \in pending :
        /\ pending' = pending \ {f}
        /\ entries' = [entries EXCEPT ![f.key] = Some(EntryFor(cImpl, f.now, clock, clock))]
        /\ insertedAt' = [insertedAt EXCEPT ![f.key] = Some(clock)]
        /\ UNCHANGED <<cImpl, configured, clock, last>>
        /\ UNCHANGED scoreVars
        /\ UNCHANGED batchVars
    /\ UNCHANGED httpVars
    /\ UNCHANGED listsVars
    /\ UNCHANGED graphVars
    /\ UNCHANGED lruVars
    /\ UNCHANGED mainVars
    /\ UNCHANGED featVars

\* the upstream fails: nothing is stored
CacheReplyFail ==
    \E f \in pending :
        /\ pending' = pending \ {f}
        /\ UNCHANGED <<cImpl, configured, clock, entries, insertedAt, last>>
        /\ UNCHANGED scoreVars
        /\ UNCHANGED batchVars
    /\ UNCHANGED httpVars
    /\ UNCHANGED listsVars
    /\ UNCHANGED graphVars
    /\ UNCHANGED lruVars
    /\ UNCHANGED mainVars
    /\ UNCHANGED featVars

CacheNext ==
    \/ CacheTick
    \/ CacheRequestAny
    \/ CacheReplyOk
    \/ CacheReplyFail

(* ============================ /score handler =========================== *)

Servers == {"v163", "v164", "v162"}

\* String.prototype.toLowerCase on the characters used here
LowerChar(c) ==
    CASE c = "A" -> "a" [] c = "B" -> "b" [] c = "C" -> "c" [] c = "D" -> "d"
      [] c = "E" -> "e" [] c = "F" -> "f" [] c = "X" -> "x" [] OTHER -> c

toLowerCase(str) == [i \in DOMAIN str |-> LowerChar(str[i])]

\* the white space of \s and of trim, among the characters used here
IsSpace(c) == c \in {" ", "\n"}

\* String.prototype.trim
RECURSIVE trim(_)
trim(str) ==
    IF str = <<>> THEN str
    ELSE IF IsSpace(Head(str)) THEN trim(Tail(str))
    ELSE IF IsSpace(str[Len(str)]) THEN trim(SubSeq(str, 1, Len(str) - 1))
    ELSE str

\* address.startsWith('0x')
startsWith0x(str) == Len(str) >= 2 /\ str[1] = "0" /\ str[2] = "x"

ValidAddress == <<"0", "x", "a", "b", "c", "d", "e", "f", "1", "2">>

RawAddresses ==
    {<<>>,
     <<"a", "b", "c">>,
     <<"0", "x", "a", "b">>,
     ValidAddress,
     <<"0", "X", "A", "B", "C", "D", "E", "F", "1", "2">>,
     <<" ", "0", "x", "a", "b", "c", "d", "e", "f", "1">>,
     <<"1", "2", "3", "4", "5", "6", "7", "8", "9", "0", "a">>}

\* what the handler makes of the query parameter before testing it
NormaliseAddress(srv, raw) ==
    IF srv = "v163" THEN toLowerCase(trim(raw)) ELSE toLowerCase(raw)

\* the handler's test; a request that fails it is answered 400
\*   v163  !address || !address.startsWith('0x') || address.length < 10
\*   v164  !address || !address.startsWith("0x")
\*   v162  !address
Rejected(srv, a) ==
    IF srv = "v163" THEN a = <<>> \/ ~startsWith0x(a) \/ Len(a) < 10
    ELSE IF srv = "v164" THEN a = <<>> \/ ~startsWith0x(a)
    ELSE a = <<>>

\* what a provider may answer about address a: ok with transactions, or not
ProviderHistories(a) ==
    {<<>>,
     <<Tx(a, Peer1, NowDay - 3)>>,
     <<Tx(Peer1, a, NowDay - 400), Tx(a, Peer2, NowDay - 5)>>,
     <<Tx(a, Peer2, NowDay - 1), Tx(Peer1, a, NowDay - 800)>>,
     <<Tx(a, Peer1, NowDay - 100), Tx(a, Peer1, NowDay - 100)>>,
     <<Tx(a, a, NowDay - 2), Tx(a, Peer1, NowDay - 2)>>}

ProviderReplies(a) ==
    {[ok |-> FALSE, txs |-> <<>>]} \cup {[ok |-> TRUE, txs |-> h] : h \in ProviderHistories(a)}

Failed == [ok |-> FALSE, txs |-> <<>>]

HttpIdle ==
    /\ server = "none" /\ rawAddress = <<>> /\ hEnv = [etherscan |-> FALSE, alchemy |-> FALSE]
    /\ lists = [ofac |-> {}, tornado |-> {}, scam |-> {}]
    /\ hpc = "idle" /\ httpStatus = 0 /\ reqAddr = <<>> /\ hist = None
    /\ body = NoRes /\ stages = {} /\ gotTxs = FALSE

HttpInit ==
    /\ server \in Servers
    /\ rawAddress \in RawAddresses
    /\ hEnv \in [etherscan : BOOLEAN, alchemy : BOOLEAN]
    /\ lists \in [ofac : {{}, {ValidAddress}}, tornado : {{}, {ValidAddress}},
                  scam : {{}, {ValidAddress}}]
    /\ hpc = "recv" /\ httpStatus = 0 /\ reqAddr = <<>> /\ hist = None
    /\ body = NoRes /\ stages = {} /\ gotTxs = FALSE

\* fetchTxHistory of v1.6.4: Fallback synthetic history (one self-tx today)
syntheticToday(a, now) == <<Tx(a, a, now)>>

\* the rest of the request once the history fetch has returned
Scored(srv, a, fetched) ==
    IF srv = "v163" THEN
        LET txList == IF fetched.ok THEN fetched.txs ELSE syntheticTx(a, NowDay)
            f == deriveFeaturesFromTx(a, txList, NowDay)
        IN  [hist |-> Some(HistoryV163(a, txList, NowDay)),
             body |-> RiskResponseV163(a, f, lists.ofac, lists.tornado, lists.scam)]
    ELSE IF srv = "v164" THEN
        LET f == buildFeatures(a, fetched.txs, NowDay)
        IN  [hist |-> Some(fetched.txs),
             body |-> scoreWithLists(a, f, lists.ofac, lists.tornado, lists.scam)]
    ELSE
        LET f == deriveFeaturesFromTxs(fetched.txs, NowDay)
        IN  [hist |-> Some(fetched.txs),
             body |-> handleScoreResponse(a, f, lists.ofac, lists.tornado, lists.scam)]

\* what the history fetch returns once the second provider has answered
AfterAlchemy(srv, a, reply) ==
    IF reply.ok /\ reply.txs # <<>>
    THEN [ok |-> TRUE, txs |-> IF srv = "v164" THEN SortByTs(reply.txs) ELSE reply.txs]
    ELSE IF srv = "v164" THEN [ok |-> FALSE, txs |-> syntheticToday(a, NowDay)]
    ELSE [ok |-> FALSE, txs |-> <<>>]

\* does the history fetch return what the first provider answered
EtherscanReturns(srv, reply) ==
    IF srv = "v163" THEN TRUE
    ELSE IF srv = "v164" THEN reply.ok
    ELSE reply.ok /\ reply.txs # <<>>

\* the request from the first provider's answer on, up to the response or
\* to the await of the second provider
FromEtherscan(srv, a, reply) ==
    IF EtherscanReturns(srv, reply)
    THEN [hpc |-> "done", code |-> 200] @@ Scored(srv, a, reply)
    ELSE IF hEnv.alchemy
    THEN [hpc |-> "alchemy", code |-> 0, hist |-> None, body |-> NoRes]
    ELSE [hpc |-> "done", code |-> 200] @@ Scored(srv, a, AfterAlchemy(srv, a, Failed))

AllStages == {"fetch", "features", "rules"}

\* the handler up to its first await, or to its response
HttpReceive ==
    /\ hpc = "recv"
    /\ LET a == NormaliseAddress(server, rawAddress)
       IN  /\ reqAddr' = a
           /\ IF Rejected(server, a)
              THEN /\ httpStatus' = 400 /\ hpc' = "done"
                   /\ UNCHANGED <<hist, body, stages>>
              ELSE IF hEnv.etherscan
              THEN /\ hpc' = "etherscan" /\ stages' = {"fetch"}
                   /\ UNCHANGED <<httpStatus, hist, body>>
              ELSE LET n == FromEtherscan(server, a, Failed)
                   IN  /\ hpc' = n.hpc /\ httpStatus' = n.code
                       /\ hist' = n.hist /\ body' = n.body
                       /\ stages' = IF n.hpc = "done" THEN AllStages ELSE {"fetch"}
    /\ UNCHANGED <<server, rawAddress, hEnv, lists, gotTxs>>
    /\ UNCHANGED scoreVars
    /\ UNCHANGED batchVars
    /\ UNCHANGED cacheVars
    /\ UNCHANGED listsVars
    /\ UNCHANGED graphVars
    /\ UNCHANGED lruVars
    /\ UNCHANGED mainVars
    /\ UNCHANGED featVars

\* Etherscan answers
HttpEtherscanReply ==
    /\ hpc = "etherscan"
    /\ \E reply \in ProviderReplies(reqAddr) :
          LET n == FromEtherscan(server, reqAddr, reply)
          IN  /\ hpc' = n.hpc /\ httpStatus' = n.code
              /\ hist' = n.hist /\ body' = n.body
              /\ stages' = IF n.hpc = "done" THEN AllStages ELSE stages
              /\ gotTxs' = (gotTxs \/ (reply.ok /\ reply.txs # <<>>))
    /\ UNCHANGED <<server, rawAddress, hEnv, lists, reqAddr>>
    /\ UNCHANGED scoreVars
    /\ UNCHANGED batchVars
    /\ UNCHANGED cacheVars
    /\ UNCHANGED listsVars
    /\ UNCHANGED graphVars
    /\ UNCHANGED lruVars
    /\ UNCHANGED mainVars
    /\ UNCHANGED featVars

\* Alchemy answers
HttpAlchemyReply ==
    /\ hpc = "alchemy"
    /\ \E reply \in ProviderReplies(reqAddr) :
          LET n == Scored(server, reqAddr, AfterAlchemy(server, reqAddr, reply))
          IN  /\ hpc' = "done" /\ httpStatus' = 200
              /\ hist' = n.hist /\ body' = n.body
              /\ stages' = AllStages
              /\ gotTxs' = (gotTxs \/ (reply.ok /\ reply.txs # <<>>))
    /\ UNCHANGED <<server, rawAddress, hEnv, lists, reqAddr>>
    /\ UNCHANGED scoreVars
    /\ UNCHANGED batchVars
    /\ UNCHANGED cacheVars
    /\ UNCHANGED listsVars
    /\ UNCHANGED graphVars
    /\ UNCHANGED lruVars
    /\ UNCHANGED mainVars
    /\ UNCHANGED featVars

HttpNext ==
    \/ HttpReceive
    \/ HttpEtherscanReply
    \/ HttpAlchemyReply

(* ============================ list parsing ============================= *)

Parsers == {"parseHexSet", "parseSet", "parseAddressSet"}

ListNames == {"ofac", "tornado", "scam"}

\* String.prototype.split with a separator class matched greedily (/[...]+/):
\* the pieces between the runs of separators, empty pieces at the ends kept
RECURSIVE split(_, _)
split(str, seps) ==
    IF \A i \in DOMAIN str : str[i] \notin seps THEN <<str>>
    ELSE LET i == CHOOSE k \in DOMAIN str :
                      str[k] \in seps /\ \A m \in 1..(k - 1) : str[m] \notin seps
             rest == SubSeq(str, i, Len(str))
             j == IF \A k \in DOMAIN rest : rest[k] \in seps THEN Len(rest) + 1
                  ELSE CHOOSE k \in DOMAIN rest :
                          rest[k] \notin seps /\ \A m \in 1..(k - 1) : rest[m] \in seps
         IN  <<SubSeq(str, 1, i - 1)>> \o split(SubSeq(rest, j, Len(rest)), seps)

Digits == {"0", "1", "2", "3", "4", "5", "6", "7", "8", "9"}

\* position of the first character of str at or after i that is not white space
RECURSIVE SkipSpace(_, _)
SkipSpace(str, i) ==
    IF i <= Len(str) /\ IsSpace(str[i]) THEN SkipSpace(str, i + 1) ELSE i

\* position of the first character of str at or after i that is not in S
RECURSIVE SkipWhile(_, _, _)
SkipWhile(str, i, S) ==
    IF i <= Len(str) /\ str[i] \in S THEN SkipWhile(str, i + 1, S) ELSE i

\* JSON.parse of the elements of an array from position i, acc the elements
\* read so far.  An element is a string (no escapes, no line break inside) or
\* an unsigned integer; the array ends at "]" followed by white space only.
\* None is a SyntaxError.  A string element is [str |-> characters], a number
\* is [num |-> digits].
RECURSIVE JsonElements(_, _, _)
JsonElements(str, i, acc) ==
    LET a == SkipSpace(str, i)
        Close(pos, elems) ==
            LET c == SkipSpace(str, pos)
            IN  IF c > Len(str) THEN None
                ELSE IF str[c] = "," THEN JsonElements(str, c + 1, elems)
                ELSE IF str[c] = "]" /\ SkipSpace(str, c + 1) > Len(str) THEN Some(elems)
                ELSE None
    IN  IF a > Len(str) THEN None
        ELSE IF str[a] = "\""
        THEN LET b == SkipWhile(str, a + 1, {c \in {str[k] : k \in DOMAIN str} :
                                             c # "\"" /\ c # "\n"})
             IN  IF b > Len(str) \/ str[b] # "\"" THEN None
                 ELSE Close(b + 1, Append(acc, [str |-> SubSeq(str, a + 1, b - 1)]))
        ELSE IF str[a] \in Digits
        THEN LET b == SkipWhile(str, a, Digits)
             IN  IF str[a] = "0" /\ b > a + 1 THEN None
                 ELSE Close(b, Append(acc, [num |-> SubSeq(str, a, b - 1)]))
        ELSE None

\* JSON.parse of a text whose first character is "[": None when it throws,
\* Some(array) otherwise
JsonParse(str) ==
    LET a == SkipSpace(str, 1)
    IN  IF a > Len(str) \/ str[a] # "[" THEN None
        ELSE LET b == SkipSpace(str, a + 1)
             IN  IF b <= Len(str) /\ str[b] = "]"
                 THEN (IF SkipSpace(str, b + 1) > Len(str) THEN Some(<<>>) ELSE None)
                 ELSE JsonElements(str, a + 1, <<>>)

\* the element is falsy: the empty string or the number 0
Falsy(v) ==
    IF "str" \in DOMAIN v THEN v.str = <<>> ELSE v.num = <<"0">>

\* String(v) of an array element
String(v) == IF "str" \in DOMAIN v THEN v.str ELSE v.num

\* v.replace(/^0x/i, '')
Strip0x(v) ==
    IF Len(v) >= 2 /\ v[1] = "0" /\ v[2] \in {"x", "X"} THEN SubSeq(v, 3, Len(v)) ELSE v

\* parseHexSet of the v1.6.3 worker
parseHexSet(blob) ==
    LET trimmed == trim(blob)
        arr == IF trimmed = <<>> THEN <<>>
               ELSE IF trimmed[1] = "["
               THEN (IF JsonParse(trimmed) = None THEN <<>> ELSE JsonParse(trimmed)[1])
               ELSE [i \in DOMAIN split(trimmed, {" ", "\n", ","}) |->
                        [str |-> split(trimmed, {" ", "\n", ","})[i]]]
        Norm(v) == toLowerCase(trim(String(v)))
    IN  {IF startsWith0x(Norm(arr[i])) THEN Norm(arr[i])
         ELSE <<"0", "x">> \o Strip0x(Norm(arr[i])) :
           i \in {k \in DOMAIN arr : ~Falsy(arr[k]) /\ Norm(arr[k]) # <<>>}}

\* parseSet of the v1.6.4 worker
parseSet(secretValue) ==
    IF secretValue = <<>> THEN {}
    ELSE LET pieces == split(secretValue, {" ", "\n", ","})
         IN  {toLowerCase(trim(pieces[i])) : i \in DOMAIN pieces} \ {<<>>}

\* addr.startsWith('0x') && addr.length >= 10
LooksLikeAddress(addr) == startsWith0x(addr) /\ Len(addr) >= 10

\* parseAddressSet (part_000), for blobs that do not start with "{"
parseAddressSet(blob) ==
    LET txt == trim(blob)
        looksJson == txt # <<>> /\ txt[1] = "[" /\ txt[Len(txt)] = "]"
        parsed == IF looksJson THEN JsonParse(txt) ELSE None
        pieces == split(txt, {" ", "\n", ",", ";"})
    IN  IF blob = <<>> THEN {}
        ELSE IF parsed # None
        THEN {a \in {toLowerCase(String(parsed[1][i])) : i \in DOMAIN parsed[1]} :
                LooksLikeAddress(a)}
        ELSE {a \in {toLowerCase(trim(pieces[i])) : i \in DOMAIN pieces} :
                LooksLikeAddress(a)}

Parse(p, blob) ==
    IF p = "parseHexSet" THEN parseHexSet(blob)
    ELSE IF p = "parseSet" THEN parseSet(blob)
    ELSE parseAddressSet(blob)

\* String.prototype.toUpperCase on the characters used here
UpperChar(c) ==
    CASE c = "a" -> "A" [] c = "b" -> "B" [] c = "c" -> "C" [] c = "d" -> "D"
      [] c = "e" -> "E" [] c = "f" -> "F" [] c = "x" -> "X" [] OTHER -> c

toUpperCase(str) == [i \in DOMAIN str |-> UpperChar(str[i])]

\* a well-formed blob naming the one address addr: in upper or lower case,
\* with or without white space around it, with or without its 0x prefix, as
\* delimited text or as a JSON array of one string
Written(addr, upper, padded, prefixed, json) ==
    LET core == IF prefixed THEN addr ELSE SubSeq(addr, 3, Len(addr))
        cased == IF upper THEN toUpperCase(core) ELSE core
        pad == IF ~padded THEN cased
               ELSE IF json THEN <<" ">> \o cased \o <<" ">>
               ELSE <<" ">> \o cased \o <<"\n">>
    IN  IF json THEN <<"[", "\"">> \o pad \o <<"\"", "]">> ELSE pad

WellFormedBlobs ==
    {Written(ValidAddress, u, p, x, j) : u \in BOOLEAN, p \in BOOLEAN, x \in BOOLEAN,
                                         j \in BOOLEAN}

\* blobs that open a JSON array and are not JSON: an unquoted element, a
\* missing closing bracket, a trailing comma
MalformedBlobs ==
    {<<"[", " ">> \o ValidAddress \o <<" ", "]">>,
     <<"[", "\"">> \o ValidAddress \o <<"\"", ",">>,
     <<"[", "\"", "0", "x", "a", "b", "\"", ",", " ">> \o ValidAddress \o <<",", "]">>}

Blobs == {<<>>} \cup WellFormedBlobs \cup MalformedBlobs

ListsIdle ==
    /\ parser = "none" /\ blobs = [l \in ListNames |-> <<>>]
    /\ registry = NoRes /\ lpc = "idle" /\ membership = NoRes

ListsInit ==
    /\ parser \in Parsers
    /\ blobs \in [ListNames -> Blobs]
    /\ registry = NoRes /\ lpc = "load" /\ membership = NoRes

\* the worker parses the three blobs of its environment
LoadLists(p) ==
    /\ lpc = "load" /\ parser = p
    /\ registry' = [l \in ListNames |-> Parse(p, blobs[l])]
    /\ lpc' = "loaded"
    /\ UNCHANGED <<parser, blobs, membership>>
    /\ UNCHANGED scoreVars
    /\ UNCHANGED batchVars
    /\ UNCHANGED cacheVars
    /\ UNCHANGED httpVars
    /\ UNCHANGED graphVars
    /\ UNCHANGED lruVars
    /\ UNCHANGED mainVars
    /\ UNCHANGED featVars

LoadWithParseHexSet == LoadLists("parseHexSet")
LoadWithParseSet == LoadLists("parseSet")
LoadWithParseAddressSet == LoadLists("parseAddressSet")

\* ofacSet.has(addr), tornadoSet.has(addr), scamSet.has(addr) for the
\* normalised address of the request
LookupAddress ==
    /\ lpc = "loaded"
    /\ membership' = [sanctioned |-> ValidAddress \in registry.ofac,
                      mixer |-> ValidAddress \in registry.tornado,
                      scamCluster |-> ValidAddress \in registry.scam]
    /\ lpc' = "looked"
    /\ UNCHANGED <<parser, blobs, registry>>
    /\ UNCHANGED scoreVars
    /\ UNCHANGED batchVars
    /\ UNCHANGED cacheVars
    /\ UNCHANGED httpVars
    /\ UNCHANGED graphVars
    /\ UNCHANGED lruVars
    /\ UNCHANGED mainVars
    /\ UNCHANGED featVars

ListsNext ==
    \/ LoadWithParseHexSet
    \/ LoadWithParseSet
    \/ LoadWithParseAddressSet
    \/ LookupAddress


(* ==================== scoring of ill-formed features =================== *)

\* feature objects of scoreAddressModelV1 with one ill-formed field
MalformedLibFeats ==
    {f @@ [malformed |-> m] :
        f \in LibFeats,
        m \in {[ageDays |-> "NaN"], [ageDays |-> "text"], [txPerDay |-> "NaN"],
               [txPerDay |-> "text"], [burstScore |-> "NaN"]}}

\* feature objects of risk-core with one ill-formed field
MalformedCoreFeats ==
    {f @@ [malformed |-> m] :
        f \in {g \in CoreFeatsSet : g.local = None /\ g.anomaly = None},
        m \in {[ageDays |-> "NaN"], [ageDays |-> "text"], [mixerTaint |-> "NaN"],
               [mixerTaint |-> "text"], [fanInZ |-> "NaN"]}}

MalformedInit ==
    /\ engine \in {"scoreAddressModelV1", "riskCore"}
    /\ feats \in (IF engine = "scoreAddressModelV1" THEN MalformedLibFeats
                  ELSE {DefaultFeats})
    /\ coreFeats \in (IF engine = "riskCore" THEN MalformedCoreFeats ELSE {DefaultCore})
    /\ heuristics = [none |-> TRUE]
    /\ ofacSet = {} /\ tornadoSet = {} /\ scamSet = {}
    /\ signals \in SignalsFor(engine)
    /\ res = NoRes

MalformedNext ==
    \/ ScoreAddressModelV1
    \/ CoreScoreOne

(* ============================ neighbor graph =========================== *)

MaxTxs == 3
MaxLimit == 3

GraphImpls ==
    {"buildNeighborGraph", "buildNeighborsFromTxs", "buildNeighborsGraph",
     "buildNeighborGraphV163", "handleNeighbors"}

\* the addresses in Map insertion order: each at its first occurrence in cps
RECURSIVE FirstSeen(_)
FirstSeen(cps) ==
    IF cps = <<>> THEN <<>>
    ELSE LET before == FirstSeen(SubSeq(cps, 1, Len(cps) - 1))
             c == cps[Len(cps)]
         IN  IF c = None \/ \E i \in DOMAIN before : before[i] = c[1] THEN before
             ELSE Append(before, c[1])

\* [...cpCounts.entries()]
CountEntries(cps) ==
    [i \in DOMAIN FirstSeen(cps) |->
        [cp |-> FirstSeen(cps)[i], weight |-> CpCount(cps, FirstSeen(cps)[i])]]

\* Array.prototype.sort with (a, b) => b[1] - a[1]: descending and stable
RECURSIVE InsertByWeight(_, _)
InsertByWeight(sorted, e) ==
    IF sorted = <<>> THEN <<e>>
    ELSE IF sorted[Len(sorted)].weight >= e.weight THEN Append(sorted, e)
    ELSE Append(InsertByWeight(SubSeq(sorted, 1, Len(sorted) - 1), e), sorted[Len(sorted)])

RECURSIVE SortByWeight(_)
SortByWeight(list) ==
    IF list = <<>> THEN <<>>
    ELSE InsertByWeight(SortByWeight(SubSeq(list, 1, Len(list) - 1)), list[Len(list)])

\* Array.prototype.slice(0, end) for an integer end: a negative end counts
\* from the end of the array
slice0(arr, end) ==
    LET e == IF end < 0 THEN Max2(Len(arr) + end, 0) ELSE Min2(end, Len(arr))
    IN  SubSeq(arr, 1, e)

\* the graph with the centre and one node and one link per entry
GraphOf(center, es) ==
    [nodes |-> <<center>> \o [i \in DOMAIN es |-> es[i].cp],
     links |-> [i \in DOMAIN es |-> [a |-> center, b |-> es[i].cp, weight |-> es[i].weight]]]

LowerTx(tx) == [tx EXCEPT !.from = toLowerCase(tx.from), !.to = toLowerCase(tx.to)]

\* buildNeighborGraph of the v1.6.4 worker
buildNeighborGraph(address, txs, lim) ==
    LET addr == toLowerCase(address)
        cps == [i \in DOMAIN txs |-> CounterpartyV164(addr, LowerTx(txs[i]))]
    IN  GraphOf(addr, slice0(SortByWeight(CountEntries(cps)), lim))

\* the loop of buildNeighborsFromTxs from transaction i on; found are the
\* counterparties pushed so far
RECURSIVE FromTxsLoop(_, _, _, _, _)
FromTxsLoop(center, txs, i, found, lim) ==
    IF i > Len(txs) THEN found
    ELSE LET cp == CounterpartyV162(center, LowerTx(txs[i]))
         IN  IF cp = None \/ cp[1] = center \/ \E k \in DOMAIN found : found[k] = cp[1]
             THEN FromTxsLoop(center, txs, i + 1, found, lim)
             ELSE IF Len(found) + 1 >= lim THEN Append(found, cp[1])
             ELSE FromTxsLoop(center, txs, i + 1, Append(found, cp[1]), lim)

\* buildNeighborsFromTxs (part_000)
buildNeighborsFromTxs(address, allTxs, lim) ==
    LET center == toLowerCase(address)
        found == FromTxsLoop(center, allTxs, 1, <<>>, lim)
    IN  GraphOf(center, [i \in DOMAIN found |-> [cp |-> found[i], weight |-> 1]])

\* buildNeighborsGraph (part_000)
buildNeighborsGraph(address, txs, lim) ==
    LET center == toLowerCase(address)
        cps == [i \in DOMAIN txs |-> CounterpartyV162(center, LowerTx(txs[i]))]
    IN  IF txs = <<>> THEN GraphOf(center, <<>>)
        ELSE GraphOf(center, slice0(SortByWeight(CountEntries(cps)), Max2(1, lim)))

\* buildNeighborGraph of the v1.6.3 worker, on the transactions the provider
\* returned (none when the call failed): one node and one link of weight 1
\* per counterparty, the first Math.min(limit, size) of them
buildNeighborGraphV163(address, txs, lim, now) ==
    LET addr == toLowerCase(address)
        list == IF txs # <<>> THEN txs ELSE syntheticTx(addr, now)
        cps == [i \in DOMAIN list |-> CounterpartyV163(addr, LowerTx(list[i]))]
        neighbors == FirstSeen(cps)
        cap == Min2(lim, Len(neighbors))
        taken == SubSeq(neighbors, 1, Max2(0, cap))
    IN  GraphOf(addr, [i \in DOMAIN taken |-> [cp |-> taken[i], weight |-> 1]])

\* const n = 10 of stubNeighbors
StubNeighborCount == 10

\* stubNeighbors: ten neighbors with random ids, each linked with weight 1
stubNeighbors(center) ==
    LET ids == [i \in 1..StubNeighborCount |->
                  <<"0", "x", "r", <<"0", "1", "2", "3", "4", "5", "6", "7", "8", "9">>[i]>>]
    IN  GraphOf(toLowerCase(center), [i \in DOMAIN ids |-> [cp |-> ids[i], weight |-> 1]])

\* handleNeighbors: neighborId = isFromCenter ? to : from, for a transaction
\* with both ends set and one of them the center
NeighborIdVW(center, tx) ==
    IF tx.from = <<>> \/ tx.to = <<>> THEN None
    ELSE IF tx.from = center THEN Some(tx.to)
    ELSE IF tx.to = center THEN Some(tx.from)
    ELSE None

\* handleNeighbors (visionRisk.worker.js) on the history fetchTxHistory
\* returned: a link of weight 1 is pushed for every transaction of the
\* center; the neighbors are cut to the limit and the links pruned to them
handleNeighbors(address, txs, lim) ==
    LET center == toLowerCase(address)
        ids == [i \in DOMAIN txs |-> NeighborIdVW(center, LowerTx(txs[i]))]
        IsLink(c) == c # None
        pushed == SelectSeq(ids, IsLink)
        NotCenter(n) == n # center
        neighbors == slice0(SelectSeq(FirstSeen(ids), NotCenter), lim)
        Kept(c) == \E k \in DOMAIN neighbors : neighbors[k] = c[1]
        prunedLinks == SelectSeq(pushed, Kept)
    IN  IF txs = <<>> THEN stubNeighbors(address)
        ELSE [nodes |-> <<center>> \o neighbors,
              links |-> [i \in DOMAIN prunedLinks |->
                           [a |-> center, b |-> prunedLinks[i][1], weight |-> 1]]]

\* the transactions a history is made of: to and from two peers, one of them
\* also in upper case, a self-transfer, a transfer between strangers, a
\* contract creation
GraphTxs ==
    {Tx(ValidAddress, Peer1, NowDay - 1),
     Tx(<<"0", "X", "1">>, ValidAddress, NowDay - 1),
     Tx(ValidAddress, Peer2, NowDay - 1),
     Tx(ValidAddress, ValidAddress, NowDay - 1),
     Tx(Peer1, Peer2, NowDay - 1),
     Tx(toUpperCase(ValidAddress), <<>>, NowDay - 1)}

GraphIdle ==
    gImpl = "none" /\ gTxs = <<>> /\ gLimit = 0 /\ graph = NoRes

GraphInit ==
    /\ gImpl \in GraphImpls
    /\ gTxs \in SeqsUpTo(GraphTxs, MaxTxs)
    /\ gLimit \in -2..MaxLimit
    /\ graph = NoRes

BuildGraph(impl, g) ==
    /\ gImpl = impl /\ graph = NoRes
    /\ graph' = g
    /\ UNCHANGED <<gImpl, gTxs, gLimit>>
    /\ UNCHANGED scoreVars
    /\ UNCHANGED batchVars
    /\ UNCHANGED cacheVars
    /\ UNCHANGED httpVars
    /\ UNCHANGED listsVars
    /\ UNCHANGED lruVars
    /\ UNCHANGED mainVars
    /\ UNCHANGED featVars

BuildNeighborGraph ==
    BuildGraph("buildNeighborGraph", buildNeighborGraph(ValidAddress, gTxs, gLimit))

BuildNeighborsFromTxs ==
    BuildGraph("buildNeighborsFromTxs", buildNeighborsFromTxs(ValidAddress, gTxs, gLimit))

BuildNeighborsGraph ==
    BuildGraph("buildNeighborsGraph", buildNeighborsGraph(ValidAddress, gTxs, gLimit))

BuildNeighborGraphV163 ==
    BuildGraph("buildNeighborGraphV163",
               buildNeighborGraphV163(ValidAddress, gTxs, gLimit, NowDay))

HandleNeighbors ==
    BuildGraph("handleNeighbors", handleNeighbors(ValidAddress, gTxs, gLimit))

GraphNext ==
    \/ BuildNeighborGraph
    \/ BuildNeighborsFromTxs
    \/ BuildNeighborsGraph
    \/ BuildNeighborGraphV163
    \/ HandleNeighbors

(* ============================== LRU cache ============================== *)

MaxCap == 2
MaxLruOps == 4
MaxLruClock == 3

LruKeys == {"k1", "k2", "k3"}

\* a falsy and a truthy value
LruValues == {0, 7}

\* position of key k in Map m, 0 when m has no such key
LruFind(m, k) ==
    IF \E i \in DOMAIN m : m[i].k = k THEN CHOOSE i \in DOMAIN m : m[i].k = k ELSE 0

\* this.map.delete(k) for the key at position i
LruDelete(m, i) == SubSeq(m, 1, i - 1) \o SubSeq(m, i + 1, Len(m))

\* get leaves the entry where it is
RefreshInPlace(m, i) == m

\* this.map.delete(k); this.map.set(k, v): the entry moves to the end
Refresh(m, i) == Append(LruDelete(m, i), m[i])

\* get(k) at time now: the Map afterwards and the value returned (None: null)
LruGet(m, k, now, ttl) ==
    LET i == LruFind(m, k)
    IN  IF i = 0 THEN [map |-> m, ret |-> None]
        ELSE IF ttl # 0 /\ (now - m[i].t) > ttl
        THEN [map |-> LruDelete(m, i), ret |-> None]
        ELSE [map |-> Refresh(m, i), ret |-> Some(m[i].v)]

\* the size test lets one entry too many stay
EvictAboveMaxPlusOne(m, cap) == IF Len(m) > cap + 1 THEN Tail(m) ELSE m

\* if (this.map.size > this.max) this.map.delete(this.map.keys().next().value)
Evict(m, cap) == IF Len(m) > cap THEN Tail(m) ELSE m

\* set(k, v) at time now, up to the size test
LruPut(m, k, v, now) ==
    LET i == LruFind(m, k)
        m1 == IF i # 0 THEN LruDelete(m, i) ELSE m
    IN  Append(m1, [k |-> k, v |-> v, t |-> now])

LruSet(m, k, v, now, cap) == Evict(LruPut(m, k, v, now), cap)

LruIdle ==
    /\ lruMax = 0 /\ lruTtl = 0 /\ lruMap = <<>> /\ lruClock = 0 /\ lruOps = 0
    /\ lruTouched = [k \in LruKeys |-> 0] /\ lruPrev = <<>> /\ lruRet = NoRes

LruInit ==
    /\ lruMax \in 0..MaxCap
    /\ lruTtl \in {0, 2}
    /\ lruMap = <<>> /\ lruClock = 0 /\ lruOps = 0
    /\ lruTouched = [k \in LruKeys |-> 0] /\ lruPrev = <<>> /\ lruRet = NoRes

\* what every operation does besides its own effect
LruCalled ==
    /\ lruOps < MaxLruOps
    /\ lruOps' = lruOps + 1
    /\ lruPrev' = lruMap
    /\ UNCHANGED <<lruMax, lruTtl, lruClock>>
    /\ UNCHANGED scoreVars
    /\ UNCHANGED batchVars
    /\ UNCHANGED cacheVars
    /\ UNCHANGED httpVars
    /\ UNCHANGED listsVars
    /\ UNCHANGED graphVars
    /\ UNCHANGED mainVars
    /\ UNCHANGED featVars

LruSetOp ==
    /\ LruCalled
    /\ \E k \in LruKeys, v \in LruValues :
          LET put == LruPut(lruMap, k, v, lruClock)
              m == LruSet(lruMap, k, v, lruClock, lruMax)
          IN  /\ lruMap' = m
              /\ lruTouched' = [lruTouched EXCEPT ![k] = lruOps + 1]
              /\ lruRet' = [op |-> "set", k |-> k, at |-> lruClock, ret |-> None,
                            evicted |-> IF Len(m) < Len(put) THEN Some(put[1].k)
                                        ELSE None]

LruGetOp ==
    /\ LruCalled
    /\ \E k \in LruKeys :
          LET g == LruGet(lruMap, k, lruClock, lruTtl)
          IN  /\ lruMap' = g.map
              /\ lruTouched' = IF g.ret # None
                               THEN [lruTouched EXCEPT ![k] = lruOps + 1]
                               ELSE lruTouched
              /\ lruRet' = [op |-> "get", k |-> k, at |-> lruClock, ret |-> g.ret,
                            evicted |-> None]

\* has(k) { return !!this.get(k); }
LruHasOp ==
    /\ LruCalled
    /\ \E k \in LruKeys :
          LET g == LruGet(lruMap, k, lruClock, lruTtl)
          IN  /\ lruMap' = g.map
              /\ lruTouched' = IF g.ret # None
                               THEN [lruTouched EXCEPT ![k] = lruOps + 1]
                               ELSE lruTouched
              /\ lruRet' = [op |-> "has", k |-> k, at |-> lruClock,
                            ret |-> Some(g.ret # None /\ g.ret[1] # 0),
                            evicted |-> None]

LruClearOp ==
    /\ LruCalled
    /\ lruMap' = <<>>
    /\ lruRet' = [op |-> "clear", k |-> "", at |-> lruClock, ret |-> None,
                  evicted |-> None]
    /\ UNCHANGED lruTouched

\* time passes between two operations
LruTick ==
    /\ lruClock < MaxLruClock
    /\ lruClock' = lruClock + 1
    /\ UNCHANGED <<lruMax, lruTtl, lruMap, lruOps, lruTouched, lruPrev, lruRet>>
    /\ UNCHANGED scoreVars
    /\ UNCHANGED batchVars
    /\ UNCHANGED cacheVars
    /\ UNCHANGED httpVars
    /\ UNCHANGED listsVars
    /\ UNCHANGED graphVars
    /\ UNCHANGED mainVars
    /\ UNCHANGED featVars

LruNext ==
    \/ LruSetOp
    \/ LruGetOp
    \/ LruHasOp
    \/ LruClearOp
    \/ LruTick

(* ============ main thread and worker: the message protocol ============= *)

\* the requests one run may post
MaxRequests == 3

MainWorkers == {"part_003", "part_001"}

\* graph node ids, as normId returns them
Nodes == {"0xn1", "0xn2"}

\* what getVisibleNodes() may return
VisibleNodes == {<<>>, <<"0xn1">>, <<"0xn1", "0xn2">>}

NoRequestYet == [type |-> "none"]

\* the message post(type, payload) sends; chain is what the caller does with
\* the promise: "panel" updates the score panel with the result, "batch"
\* calls scoreVisible(), "bind" runs bindUI() and seedDemo()
Request(type, node, batch, chain) ==
    [type |-> type, node |-> node, items |-> batch, chain |-> chain]

\* a message of the worker: id is 0 when the message carries none, rid is the
\* id of the result in it ("" when the data has no id or address)
Reply(id, type, rid) == [id |-> id, type |-> type, rid |-> rid]

ReqIds == 1..MaxRequests

MainIdle ==
    /\ mWorker = "none" /\ requests = <<>> /\ posts = 0 /\ pendingMap = {}
    /\ wpc = <<>> /\ wleft = <<>> /\ toMain = <<>> /\ replies = <<>>
    /\ settles = <<>> /\ uiBound = FALSE /\ selectedNodeId = "null"
    /\ panel = NoRes

\* the page after init() ran up to its await: INIT is posted
MainInit ==
    /\ mWorker \in MainWorkers
    /\ requests = [i \in ReqIds |->
                     IF i = 1 THEN Request("INIT", "", <<>>, "bind") ELSE NoRequestYet]
    /\ posts = 1
    /\ pendingMap = {1}
    /\ wpc = [i \in ReqIds |-> IF i = 1 THEN "queued" ELSE "none"]
    /\ wleft = [i \in ReqIds |-> {}]
    /\ toMain = <<>>
    /\ replies = [i \in ReqIds |-> 0]
    /\ settles = [i \in ReqIds |-> 0]
    /\ uiBound = FALSE
    /\ selectedNodeId = "null"
    /\ panel = NoRes

MainFrame ==
    /\ UNCHANGED featVars
    /\ UNCHANGED scoreVars
    /\ UNCHANGED batchVars
    /\ UNCHANGED cacheVars
    /\ UNCHANGED httpVars
    /\ UNCHANGED listsVars
    /\ UNCHANGED graphVars
    /\ UNCHANGED lruVars
    /\ UNCHANGED featVars

\* post(): pending.set(id, ...); worker.postMessage(...), for the requests of
\* rs in turn, starting from the state [requests, pendingMap, wpc, posts]
RECURSIVE Post(_, _)
Post(rs, s) ==
    IF rs = <<>> THEN s
    ELSE LET id == s.posts + 1
         IN  Post(Tail(rs),
                  [requests |-> [s.requests EXCEPT ![id] = Head(rs)],
                   pendingMap |-> s.pendingMap \cup {id},
                   wpc |-> [s.wpc EXCEPT ![id] = "queued"],
                   posts |-> id])

MainState ==
    [requests |-> requests, pendingMap |-> pendingMap, wpc |-> wpc, posts |-> posts]

\* the selectNode handler (and the Load Seed button, which does the same for
\* the typed seed): setSelected(id), SCORE_ONE posted with a panel update
\* chained, then refreshGraphFromLive posts NEIGHBORS
SelectNode ==
    /\ uiBound /\ posts + 2 <= MaxRequests
    /\ \E n \in Nodes :
          /\ selectedNodeId' = n
          /\ LET s == Post(<<Request("SCORE_ONE", n, <<>>, "panel"),
                             Request("NEIGHBORS", n, <<>>, "none")>>, MainState)
             IN  /\ requests' = s.requests /\ pendingMap' = s.pendingMap
                 /\ wpc' = s.wpc /\ posts' = s.posts
    /\ UNCHANGED <<mWorker, wleft, toMain, replies, settles, uiBound, panel>>
    /\ MainFrame

\* scoreVisible(): nothing is posted when no node is in view
ScoreVisible ==
    /\ uiBound /\ posts + 1 <= MaxRequests
    /\ \E v \in VisibleNodes :
          LET s == IF v = <<>> THEN MainState
                   ELSE Post(<<Request("SCORE_BATCH", "", v, "none")>>, MainState)
          IN  /\ requests' = s.requests /\ pendingMap' = s.pendingMap
              /\ wpc' = s.wpc /\ posts' = s.posts
    /\ UNCHANGED <<mWorker, wleft, toMain, replies, settles, uiBound,
                   selectedNodeId, panel>>
    /\ MainFrame

\* the network select: await post('INIT', ...); scoreVisible()
NetworkChange ==
    /\ uiBound /\ posts + 1 <= MaxRequests
    /\ LET s == Post(<<Request("INIT", "", <<>>, "batch")>>, MainState)
       IN  /\ requests' = s.requests /\ pendingMap' = s.pendingMap
           /\ wpc' = s.wpc /\ posts' = s.posts
    /\ UNCHANGED <<mWorker, wleft, toMain, replies, settles, uiBound,
                   selectedNodeId, panel>>
    /\ MainFrame

\* the Clear button: setSelected(null), and normId(null) is ""
ClearSelection ==
    /\ uiBound /\ selectedNodeId # ""
    /\ selectedNodeId' = ""
    /\ UNCHANGED <<mWorker, requests, posts, pendingMap, wpc, wleft, toMain,
                   replies, settles, uiBound, panel>>
    /\ MainFrame

\* post(msg) of the worker
WorkerPost(id, type, rid, msgs, counts) ==
    [toMain |-> Append(msgs, Reply(id, type, rid)),
     replies |-> IF id = 0 THEN counts ELSE [counts EXCEPT ![id] = @ + 1]]

\* self.onmessage up to its first await, for the oldest message not yet
\* handled: INIT answers at once, an empty batch posts DONE at once, every
\* other request awaits its scoring or its neighbors
WorkerReceive ==
    /\ \E id \in ReqIds :
          /\ wpc[id] = "queued"
          /\ \A j \in ReqIds : j < id => wpc[j] # "queued"
          /\ LET r == requests[id]
                 now == r.type = "INIT" \/ (r.type = "SCORE_BATCH" /\ r.items = <<>>)
                 p == WorkerPost(id, IF r.type = "INIT" THEN "INIT_OK" ELSE "DONE", "",
                                 toMain, replies)
             IN  /\ wpc' = [wpc EXCEPT ![id] = IF now THEN "done" ELSE "awaiting"]
                 /\ wleft' = [wleft EXCEPT ![id] = DOMAIN r.items]
                 /\ toMain' = IF now THEN p.toMain ELSE toMain
                 /\ replies' = IF now THEN p.replies ELSE replies
    /\ UNCHANGED <<mWorker, requests, posts, pendingMap, settles, uiBound,
                   selectedNodeId, panel>>
    /\ MainFrame

\* SCORE_ONE and NEIGHBORS: the awaited call settles; RESULT carries the
\* data, a throw is answered by the catch with ERROR
WorkerSettleOne(id, ok) ==
    /\ wpc[id] = "awaiting" /\ requests[id].type \in {"SCORE_ONE", "NEIGHBORS"}
    /\ LET r == requests[id]
           p == IF ok
                THEN WorkerPost(id, "RESULT",
                                IF r.type = "SCORE_ONE" THEN r.node ELSE "",
                                toMain, replies)
                ELSE WorkerPost(id, "ERROR", "", toMain, replies)
       IN  toMain' = p.toMain /\ replies' = p.replies
    /\ wpc' = [wpc EXCEPT ![id] = "done"]
    /\ UNCHANGED <<mWorker, requests, posts, pendingMap, wleft, settles, uiBound,
                   selectedNodeId, panel>>
    /\ MainFrame

\* the item of a batch whose scoreOne settles next: the pool of part_003 has
\* every item of these batches in flight, the loop of part_001 awaits them
\* in input order
BatchMaySettle(id, i) ==
    /\ i \in wleft[id]
    /\ mWorker = "part_001" => \A j \in wleft[id] : i <= j

\* SCORE_BATCH: one scoreOne of the batch settles.  A result is streamed
\* without an id.  part_003 logs a failure and goes on, DONE follows the last
\* item; in part_001 a failure leaves the loop for the catch, which posts
\* ERROR.
WorkerSettleItem(id, i, ok) ==
    /\ wpc[id] = "awaiting" /\ requests[id].type = "SCORE_BATCH"
    /\ BatchMaySettle(id, i)
    /\ LET left == wleft[id] \ {i}
           aborted == ~ok /\ mWorker = "part_001"
           p1 == IF ok THEN WorkerPost(0, "RESULT_STREAM", requests[id].items[i],
                                       toMain, replies)
                 ELSE [toMain |-> toMain, replies |-> replies]
           p2 == IF aborted THEN WorkerPost(id, "ERROR", "", p1.toMain, p1.replies)
                 ELSE IF left = {} THEN WorkerPost(id, "DONE", "", p1.toMain, p1.replies)
                 ELSE p1
       IN  /\ toMain' = p2.toMain /\ replies' = p2.replies
           /\ wleft' = [wleft EXCEPT ![id] = IF aborted THEN {} ELSE left]
           /\ wpc' = [wpc EXCEPT ![id] = IF aborted \/ left = {} THEN "done" ELSE "awaiting"]
    /\ UNCHANGED <<mWorker, requests, posts, pendingMap, settles, uiBound,
                   selectedNodeId, panel>>
    /\ MainFrame

WorkerSettle(id) ==
    \/ \E ok \in BOOLEAN : WorkerSettleOne(id, ok)
    \/ \E i \in 1..2, ok \in BOOLEAN : WorkerSettleItem(id, i, ok)

\* pending.delete(id) without the delete
SettleKeepsEntry(p, id) == p

\* if (req) { req.resolve(...) or req.reject(...); pending.delete(id); }
SettleRequest(p, id) == p \ {id}

\* if (r.id === selectedNodeId) updateScorePanel(r)
PanelIfSelected(rid, sel, shown) ==
    IF rid = sel THEN [id |-> rid, sel |-> sel] ELSE shown

\* .then(r => { const rr = normalizeResult(r); updateScorePanel(rr); ... })
PanelFromPromise(rid, sel, shown) == [id |-> rid, sel |-> sel]

\* worker.onmessage for the next message of the worker, with the reactions
\* chained on the promise it settles; v is what getVisibleNodes() returns to
\* a chained scoreVisible() (no node is in view once MaxRequests are posted).
\* seedDemo() selects the seed node.
DeliverWith(v) ==
    /\ toMain # <<>>
    /\ LET msg == Head(toMain)
           req == msg.id # 0 /\ msg.id \in pendingMap
           chain == IF req THEN requests[msg.id].chain ELSE "none"
           resolved == req /\ msg.type \in {"INIT_OK", "RESULT", "DONE"}
           shown1 == IF msg.type \in {"RESULT", "RESULT_STREAM"}
                     THEN PanelIfSelected(msg.rid, selectedNodeId, panel)
                     ELSE panel
           shown2 == IF resolved /\ chain = "panel"
                     THEN PanelFromPromise(msg.rid, selectedNodeId, shown1)
                     ELSE shown1
           bind == resolved /\ chain = "bind"
           s == IF resolved /\ chain = "batch" /\ v # <<>> /\ posts < MaxRequests
                THEN Post(<<Request("SCORE_BATCH", "", v, "none")>>, MainState)
                ELSE MainState
       IN  /\ toMain' = Tail(toMain)
           /\ pendingMap' = IF req THEN SettleRequest(s.pendingMap, msg.id)
                            ELSE s.pendingMap
           /\ settles' = IF req THEN [settles EXCEPT ![msg.id] = @ + 1] ELSE settles
           /\ panel' = shown2
           /\ uiBound' = (uiBound \/ bind)
           /\ selectedNodeId' = IF bind THEN "0xn1" ELSE selectedNodeId
           /\ requests' = s.requests /\ wpc' = s.wpc /\ posts' = s.posts
    /\ UNCHANGED <<mWorker, wleft, replies>>
    /\ MainFrame

Deliver == \E v \in VisibleNodes : DeliverWith(v)

WorkerSettles == \E id \in ReqIds : WorkerSettle(id)

MainNext ==
    \/ SelectNode
    \/ ScoreVisible
    \/ NetworkChange
    \/ ClearSelection
    \/ WorkerReceive
    \/ WorkerSettles
    \/ Deliver

(* ================== feature extraction and its input =================== *)

FeatImpls == {"buildFeaturesV164", "buildFeaturesP004"}

\* transactions on three different days, one of them without a timestamp
FeatTxs ==
    {Tx(ValidAddress, Peer1, NowDay - 1),
     Tx(Peer2, ValidAddress, NowDay - 30),
     Tx(ValidAddress, Peer2, NowDay - 400),
     Tx(ValidAddress, Peer1, 0)}

\* the array txList names: txs itself in the v1.6.4 worker
\* (Array.isArray(txs) ? txs : []), a copy of it in part_004 ([...txs])
SameArray(impl) == impl = "buildFeaturesV164"

\* txList.sort(...) runs on a non-empty txList and sorts it in place: the
\* caller's array afterwards
ArrayAfter(impl, txs) ==
    IF SameArray(impl) /\ txs # <<>> THEN SortByTs(txs) ELSE txs

FeatIdle ==
    fImpl = "none" /\ fTxs = <<>> /\ fGiven = <<>> /\ fOut = NoRes

FeatInit ==
    /\ fImpl \in FeatImpls
    /\ fTxs \in SeqsUpTo(FeatTxs, MaxTxs)
    /\ fGiven = fTxs
    /\ fOut = NoRes

BuildFeatures(impl) ==
    /\ fImpl = impl /\ fOut = NoRes
    /\ fOut' = buildFeatures(ValidAddress, fTxs, NowDay)
    /\ fTxs' = ArrayAfter(impl, fTxs)
    /\ UNCHANGED <<fImpl, fGiven>>
    /\ UNCHANGED scoreVars
    /\ UNCHANGED batchVars
    /\ UNCHANGED cacheVars
    /\ UNCHANGED httpVars
    /\ UNCHANGED listsVars
    /\ UNCHANGED graphVars
    /\ UNCHANGED lruVars
    /\ UNCHANGED mainVars

BuildFeaturesV164 == BuildFeatures("buildFeaturesV164")

BuildFeaturesP004 == BuildFeatures("buildFeaturesP004")

FeatNext ==
    \/ BuildFeaturesV164
    \/ BuildFeaturesP004

vars ==
    <<scoreVars, batchVars, cacheVars, httpVars, listsVars, graphVars, lruVars,
      mainVars, featVars>>

Init ==
    /\ ScoreInit
    /\ BatchIdle
    /\ CacheIdle
    /\ HttpIdle
    /\ ListsIdle
    /\ GraphIdle
    /\ LruIdle
    /\ MainIdle
    /\ FeatIdle
Next == ScoreNext
Spec == Init /\ [][Next]_vars

BatchNext ==
    \/ CoreBatchStart
    \/ CoreSettleOk
    \/ CoreSettleFail
    \/ PoolBatchStart
    \/ PoolSettleOk
    \/ PoolSettleFail
    \/ LoopBatchStart
    \/ LoopSettleOk
    \/ LoopSettleFail

InitBatch ==
    /\ BatchInit
    /\ ScoreIdle
    /\ CacheIdle
    /\ HttpIdle
    /\ ListsIdle
    /\ GraphIdle
    /\ LruIdle
    /\ MainIdle
    /\ FeatIdle

SpecBatch == InitBatch /\ [][BatchNext]_vars

InitCache ==
    /\ CacheInit
    /\ ScoreIdle
    /\ BatchIdle
    /\ HttpIdle
    /\ ListsIdle
    /\ GraphIdle
    /\ LruIdle
    /\ MainIdle
    /\ FeatIdle

SpecCache == InitCache /\ [][CacheNext]_vars

InitHttp ==
    /\ HttpInit
    /\ ScoreIdle
    /\ BatchIdle
    /\ CacheIdle
    /\ ListsIdle
    /\ GraphIdle
    /\ LruIdle
    /\ MainIdle
    /\ FeatIdle

SpecHttp == InitHttp /\ [][HttpNext]_vars

InitLists ==
    /\ ListsInit
    /\ ScoreIdle
    /\ BatchIdle
    /\ CacheIdle
    /\ HttpIdle
    /\ GraphIdle
    /\ LruIdle
    /\ MainIdle
    /\ FeatIdle

SpecLists == InitLists /\ [][ListsNext]_vars

InitGraph ==
    /\ GraphInit
    /\ ScoreIdle
    /\ BatchIdle
    /\ CacheIdle
    /\ HttpIdle
    /\ ListsIdle
    /\ LruIdle
    /\ MainIdle
    /\ FeatIdle

SpecGraph == InitGraph /\ [][GraphNext]_vars

InitMalformed ==
    /\ MalformedInit
    /\ BatchIdle
    /\ CacheIdle
    /\ HttpIdle
    /\ ListsIdle
    /\ GraphIdle
    /\ LruIdle
    /\ MainIdle
    /\ FeatIdle

SpecMalformed == InitMalformed /\ [][MalformedNext]_vars

InitLru ==
    /\ LruInit
    /\ ScoreIdle
    /\ BatchIdle
    /\ CacheIdle
    /\ HttpIdle
    /\ ListsIdle
    /\ GraphIdle
    /\ MainIdle
    /\ FeatIdle

SpecLru == InitLru /\ [][LruNext]_vars

InitMain ==
    /\ MainInit
    /\ ScoreIdle
    /\ BatchIdle
    /\ CacheIdle
    /\ HttpIdle
    /\ ListsIdle
    /\ GraphIdle
    /\ LruIdle
    /\ FeatIdle

SpecMain == InitMain /\ [][MainNext]_vars

\* every handler the worker started runs on, every awaited fetch settles, and
\* every message the worker posted is delivered
MainFairness ==
    /\ WF_vars(WorkerReceive)
    /\ \A id \in ReqIds : WF_vars(WorkerSettle(id))
    /\ WF_vars(Deliver)

SpecMainFair == InitMain /\ [][MainNext]_vars /\ MainFairness

InitFeat ==
    /\ FeatInit
    /\ ScoreIdle
    /\ BatchIdle
    /\ CacheIdle
    /\ HttpIdle
    /\ ListsIdle
    /\ GraphIdle
    /\ LruIdle
    /\ MainIdle

SpecFeat == InitFeat /\ [][FeatNext]_vars

(* ========================= scoring properties ========================== *)

HasScore(r) == "score" \in DOMAIN r /\ r.score \in 0..100

HasRes == "score" \in DOMAIN res

\* the subject address is on the sanctioned list, as the engine sees it
Sanctioned ==
    IF engine \in SetEngines THEN Subject \in ofacSet ELSE Truthy(signals, "ofacHit")

OnMixerList == Subject \in tornadoSet
OnScamList == Subject \in scamSet

\* C1: whenever the scored address is on the sanctioned (OFAC) list, the
\* returned result has score exactly 100 and block true, whatever the features
\* and the other list memberships (scoreFromFeatures, scoreWithLists,
\* scoreAddressModelV1).
C1_SanctionedForces100 ==
    (/\ HasRes
     /\ engine \in {"buildRiskResponse", "scoreFromFeatures", "scoreWithLists",
                    "scoreAddressModelV1"}
     /\ Sanctioned)
    => (res.score = 100 /\ res.block)

C3_ListFloors ==
    (HasRes /\ engine = "buildRiskResponse" /\ ~Sanctioned)
    => /\ (OnMixerList /\ OnScamList) => res.score >= 90
       /\ (OnMixerList # OnScamList) => res.score >= 80

(* ========================== batch properties =========================== *)

InFlight == Cardinality({i \in DOMAIN st : st[i] \in {"running", "hit"}})

EffectiveConcurrency ==
    IF bImpl = "riskCore" THEN CoreConcurrency(conc)
    ELSE IF bImpl = "workerPool" THEN WorkerConcurrency(conc)
    ELSE LoopConcurrency(conc)

\* C4: at no time does the number of single-address scoring operations that
\* have started and not yet settled exceed the configured concurrency.
C4_BoundedInFlight == InFlight <= EffectiveConcurrency

\* the limit bites: as many operations in flight as allowed, more waiting
C4_Witness_LimitReached ==
    /\ bImpl \in {"riskCore", "workerPool"} /\ bpc = "running"
    /\ conc # 0 /\ InFlight = EffectiveConcurrency
    /\ \E i \in DOMAIN st : st[i] = "queued"

\* C5: the array scoreBatch returns is as long as the input and holds at
\* position i the score of items[i], whatever the completion order was.
C5_OutputAligned ==
    (bImpl = "riskCore" /\ bpc = "returned")
    => /\ Len(out) = Len(items)
       /\ \A i \in DOMAIN items : out[i] = ScoreResult(items[i])

\* a batch of differently scored items returned after they settled out of
\* input order
C5_Witness_OutOfOrder ==
    /\ bImpl = "riskCore" /\ bpc = "returned" /\ Len(items) >= 2
    /\ \E a, b \in DOMAIN settled :
          /\ a < b /\ settled[a] > settled[b]
          /\ ScoreResult(items[settled[a]]) # ScoreResult(items[settled[b]])

BatchEnded == bpc \in {"returned", "rejected", "done", "error"}

SomeItemFailed == \E i \in DOMAIN st : st[i] = "failed"

\* item i's result reached the caller
Delivered(i) ==
    IF bImpl = "riskCore"
    THEN bpc = "returned" /\ out[i] = ScoreResult(items[i])
    ELSE \E k \in DOMAIN posted : posted[k] = Msg("RESULT_STREAM", items[i])

\* item i's slot holds a result tagged with the error
ErrorTagged(i) ==
    IF bImpl = "riskCore"
    THEN bpc = "returned" /\ "error" \in DOMAIN out[i]
    ELSE \E k \in DOMAIN posted :
            /\ posted[k].type = "RESULT_STREAM" /\ posted[k].id = items[i]
            /\ "error" \in DOMAIN posted[k]

\* C6: when the scoring of one item fails the batch still completes normally,
\* every other item is scored and delivered, and the failing item's slot gets
\* an error-tagged degraded result.
C6_FailSoft ==
    (BatchEnded /\ SomeItemFailed)
    => /\ bpc \in {"returned", "done"}
       /\ \A i \in DOMAIN items :
             IF st[i] = "failed" THEN ErrorTagged(i) ELSE Delivered(i)

(* ========================== cache properties =========================== *)

\* C7: once a request has completed successfully and its result was cached, a
\* later request for the same key made less than the TTL after that insertion
\* returns the cached result and starts no upstream fetch.
C7_FreshHit ==
    (/\ "outcome" \in DOMAIN last
     /\ last.sinceInsert # None
     /\ WithinTTL(cImpl, last.sinceInsert[1]))
    => last.outcome = "hit"

\* C9: an empty history gives ageDays = 0, the unknown marker, and the rule
\* engine gives the age factor impact 0 for ageDays = 0, never the impact of
\* the youngest wallets (scoreWithLists, ageScore of the ensemble).
C9_UnknownAgeNeutral ==
    (/\ HasRes
     /\ engine \in {"scoreWithLists", "runRiskModel"}
     /\ res.feats.ageDays = 0)
    => res.parts.age = 0

(* =========================== /score properties ========================= *)

\* the format test the handler is to apply to the address it was sent
FailsValidation(raw) ==
    LET a == toLowerCase(raw)
    IN  a = <<>> \/ ~startsWith0x(a) \/ Len(a) < 10

\* C8: a /score request whose address is empty, does not start with 0x or is
\* shorter than 10 characters is answered 400, and no stage of the scoring
\* pipeline (transaction fetch, feature extraction, rule engine) runs for it.
C8_MalformedRejected ==
    (server \in {"v163", "v162"} /\ FailsValidation(rawAddress) /\ hpc # "recv")
    => /\ stages = {}
       /\ hpc = "done" /\ httpStatus = 400

\* C10: when every provider call fails or returns no transactions, the history
\* that is scored is exactly one self-transfer of the subject address dated in
\* the past, and the request is still answered with a numeric score.
C10_SyntheticHistory ==
    (server \in {"v163", "v164"} /\ hpc = "done" /\ ~Rejected(server, reqAddr) /\ ~gotTxs)
    => /\ httpStatus = 200
       /\ HasScore(body)
       /\ hist # None
       /\ Len(hist[1]) = 1
       /\ hist[1][1].from = reqAddr /\ hist[1][1].to = reqAddr
       /\ hist[1][1].ts < NowDay

\* the request was answered with a score although no provider returned any
\* transaction: the score comes from the fallback history
ScoredFromFallback ==
    hpc = "done" /\ httpStatus = 200 /\ HasScore(body) /\ ~gotTxs

\* C11: a score computed from the synthetic fallback history, because the
\* chain-data fetch failed, is flagged low-confidence: its confidence is below
\* the confidence 1 (100 percent) reported for a score from real transactions.
C11_FallbackLowConfidence ==
    ScoredFromFallback => body.confidence < 100

(* ========================= list parsing properties ===================== *)

\* the blob opens a JSON array and is not JSON
Malformed(blob) ==
    LET txt == trim(blob)
    IN  txt # <<>> /\ txt[1] = "[" /\ JsonParse(txt) = None

\* what the lookup reported for list l
Hit(l) ==
    IF l = "ofac" THEN membership.sanctioned
    ELSE IF l = "tornado" THEN membership.mixer
    ELSE membership.scamCluster

\* C12: parsing a malformed list blob never throws and yields the empty set
\* for that list, so no address is reported a member of a list because of a
\* malformed blob.
C12_MalformedBlobEmpty ==
    \A l \in ListNames :
        (lpc = "looked" /\ Malformed(blobs[l])) => (registry[l] = {} /\ ~Hit(l))

\* C13: an address written in a list blob in any letter case, with or without
\* white space around it, with or without its 0x prefix, is reported a member
\* of that list when its trimmed, lower-case, 0x-prefixed form is looked up.
C13_LookupMatchesStorage ==
    \A l \in ListNames :
        (lpc = "looked" /\ blobs[l] \in WellFormedBlobs) => Hit(l)

(* ========================= neighbor graph properties =================== *)

\* C14: for any transaction list and any limit, the neighbor graph returned
\* has at most limit + 1 nodes: the center and at most limit neighbors.
C14_NodesWithinLimit ==
    graph # NoRes => Len(graph.nodes) <= gLimit + 1

(* ===================== properties of ill-formed features =============== *)

\* the features the engine was given
GivenFeats == IF engine = "riskCore" THEN coreFeats ELSE feats

\* the impact the result gives to the factor that field k feeds, when no
\* other field feeds an impact into that factor
FactorImpact(k) ==
    IF engine = "riskCore"
    THEN Contribution42(CASE k = "ageDays" -> "newAddressAge"
                          [] k = "mixerTaint" -> "knownMixerProximity"
                          [] OTHER -> "fanInHigh", coreFeats)
    ELSE IF k = "ageDays" THEN res.parts.age
    ELSE IF k = "txPerDay" /\ RIsZero(feats.burstScore) THEN res.parts.velocity
    ELSE IF k = "burstScore" /\ RIsZero(feats.txPerDay) THEN res.parts.velocity
    ELSE 0

\* C15: a feature field that is NaN or malformed contributes zero impact for
\* its factor: the engine returns a finite score and gives that factor no
\* non-zero impact in place of the unusable value.
C15_MalformedFieldNeutral ==
    (res # NoRes /\ "malformed" \in DOMAIN GivenFeats)
    => /\ HasScore(res)
       /\ \A k \in DOMAIN GivenFeats.malformed : FactorImpact(k) = 0

(* ========================== reasons properties ========================= *)

\* the reasons that name a list match
ListReasons ==
    {"OFAC / sanctions list match", "Mixer proximity (Tornado)",
     "Sketchy cluster pattern", "Sketchy / scam cluster pattern",
     "Mixer proximity pattern", PartLabel.lists}

\* C16: the reasons of a result hold the label of every factor whose impact
\* is not zero (for the list factor: its label or the reason naming the list
\* match), and a reason for the sanctions override when it applied; no factor
\* with a non-zero impact is missing.
C16_ReasonsComplete ==
    (res # NoRes /\ "reasons" \in DOMAIN res)
    => /\ \A k \in DOMAIN res.parts \ {"lists"} :
             res.parts[k] # 0 => PartLabel[k] \in res.reasons
       /\ res.parts.lists # 0 => res.reasons \cap ListReasons # {}
       /\ Sanctioned =>
             res.reasons \cap {"OFAC / sanctions list match", PartLabel.lists} # {}

(* ========================== age factor properties ====================== *)

\* the engines whose result carries the impact of the age factor
AgeEngines ==
    {"buildRiskResponse", "scoreFromFeatures", "scoreWithLists",
     "scoreAddressModelV1", "runRiskModel"}

\* the age impact the deployed engine gives when ageDays is b and every other
\* feature, list and weight is as in the call that was made
AgeImpactAt(b) ==
    LET f == [feats EXCEPT !.ageDays = b]
    IN  CASE engine = "buildRiskResponse" ->
                RiskResponseV163(Subject, f, ofacSet, tornadoSet, scamSet).parts.age
          [] engine = "scoreFromFeatures" -> scoreFromFeatures(f, signals).parts.age
          [] engine = "scoreWithLists" ->
                scoreWithLists(Subject, f, ofacSet, tornadoSet, scamSet).parts.age
          [] engine = "scoreAddressModelV1" -> scoreAddressModelV1(f, signals).parts.age
          [] OTHER -> runRiskModel(f, signals, heuristics).parts.age

\* C17 as stated: with all other features and list signals fixed, for any two
\* ageDays values a < b the age impact for a is at least the age impact for b.
C17_AgeMonotone ==
    (res # NoRes /\ engine \in AgeEngines)
    => \A b \in AgeVals : feats.ageDays < b => res.parts.age >= AgeImpactAt(b)

\* the weight table in force gives no age bucket a larger weight than a
\* younger bucket, as the default table does
AgeWeightsOrdered ==
    LET w == mergeHeuristics(heuristics).weights
    IN  /\ w.age_very_young >= w.age_young /\ w.age_young >= w.age_mid
        /\ w.age_mid >= w.age_mature /\ w.age_mature >= w.age_very_old

\* C17 (amended): with all other features and list signals fixed, for any two
\* known ages 0 < a < b the age impact for a is at least the age impact for b,
\* under a weight table whose age weights do not grow with the age bucket;
\* ageDays = 0 is the unknown marker and is outside the ordering.
C17_AgeMonotoneKnown ==
    (res # NoRes /\ engine \in AgeEngines /\ feats.ageDays > 0 /\ AgeWeightsOrdered)
    => \A b \in AgeVals : feats.ageDays < b => res.parts.age >= AgeImpactAt(b)

\* a wallet younger than a week was scored, and its age impact is strictly
\* above the one the same engine gives the same wallet at 1000 days
C17_Witness_YoungAboveOld ==
    /\ res # NoRes /\ engine \in AgeEngines
    /\ feats.ageDays > 0 /\ feats.ageDays < 7
    /\ res.parts.age > AgeImpactAt(1000)

(* ============================ LRU properties =========================== *)

\* C18: after any sequence of set, get, has and clear operations on an LRU
\* cache constructed with max entries, the number of stored entries never
\* exceeds max.
C18_SizeWithinMax == Len(lruMap) <= lruMax

\* a set on a cache that was full evicted an entry and left the cache full
C18_Witness_FullAfterEviction ==
    /\ lruRet # NoRes /\ lruRet.op = "set" /\ lruRet.evicted # None
    /\ lruMax >= 1 /\ Len(lruPrev) = lruMax /\ Len(lruMap) = lruMax

\* the entry that the latest operation found stored for its key, None if none
LruFound ==
    IF LruFind(lruPrev, lruRet.k) = 0 THEN None
    ELSE Some(lruPrev[LruFind(lruPrev, lruRet.k)])

\* C19: a cache read returns the stored value if and only if an entry exists
\* for the key and now - insertedAt < ttl; in every other case the read is a
\* miss, and an expired entry is removed.
C19_ReadIffFresh ==
    (lruRet # NoRes /\ lruRet.op = "get" /\ lruTtl > 0)
    => LET fresh == LruFound # None /\ lruRet.at - LruFound[1].t < lruTtl
       IN  /\ fresh => lruRet.ret = Some(LruFound[1].v)
           /\ ~fresh => lruRet.ret = None
           /\ (LruFound # None /\ ~fresh) => LruFind(lruMap, lruRet.k) = 0

\* the entries stored when the latest set tested the size: those it found,
\* less the one it replaced, and the one it wrote
LruStoredAtEviction ==
    {lruPrev[i] : i \in {j \in DOMAIN lruPrev : lruPrev[j].k # lruRet.k}}
    \cup {[k |-> lruRet.k, t |-> lruRet.at, v |-> v] : v \in LruValues}

\* the time of the last set of the evicted key
LruEvictedAt ==
    IF lruRet.evicted[1] = lruRet.k THEN lruRet.at
    ELSE lruPrev[LruFind(lruPrev, lruRet.evicted[1])].t

\* C20 as stated: when a set pushes the cache over its bound, the entry
\* evicted is the one whose insertion (last set) is the oldest among the
\* stored entries, whatever get operations happened in between.
C20_EvictsOldestInserted ==
    (lruRet # NoRes /\ lruRet.op = "set" /\ lruRet.evicted # None)
    => \A e \in LruStoredAtEviction : LruEvictedAt <= e.t

\* C20 (amended): when a set pushes the cache over its bound, the entry
\* evicted is the least recently used one: the one whose last set or read hit
\* is the oldest among the stored entries.
C20_EvictsLeastRecentlyUsed ==
    (lruRet # NoRes /\ lruRet.op = "set" /\ lruRet.evicted # None)
    => \A e \in LruStoredAtEviction :
          lruTouched[lruRet.evicted[1]] <= lruTouched[e.k]

\* a set evicted an entry although an entry inserted before it is stored: a
\* read in between had refreshed the older one
C20_Witness_ReadSavedOlder ==
    /\ lruRet # NoRes /\ lruRet.op = "set" /\ lruRet.evicted # None
    /\ \E e \in LruStoredAtEviction : e.t < LruEvictedAt

(* ---- C21: backend fetches per cache key ---- *)

\* the items of the worker-pool batch whose /score fetch is in flight
FetchesInFlight == {i \in DOMAIN st : st[i] = "running"}

\* C21: in the worker pool of part_003, at most one backend /score fetch is
\* in flight for a cache key: two items with the same (network, address) are
\* never both awaiting their own fetch.
C21_OneFetchPerKey ==
    bImpl = "workerPool"
    => \A i, j \in FetchesInFlight : items[i] = items[j] => i = j

(* ---- C22: the worker pool takes and scores every item once ---- *)

\* the positions of the messages of one type in posted
PostedAt(type) == {k \in DOMAIN posted : posted[k].type = type}

\* how often item index i settled
TimesScored(i) == Cardinality({k \in DOMAIN settled : settled[k] = i})

\* C22: in the worker-pool scoreBatch no item index is held by two workers,
\* no index is scored twice, every index has been scored exactly once when
\* the batch is done, and DONE is posted exactly once and only then, after
\* every RESULT_STREAM message (one per item that scored).
C22_EachItemOnceThenDone ==
    bImpl = "workerPool"
    => /\ \A v, w \in DOMAIN wk : (wk[v] > 0 /\ wk[v] = wk[w]) => v = w
       /\ \A i \in Idx : TimesScored(i) <= 1
       /\ \A w \in DOMAIN wk : wk[w] > 0 => TimesScored(wk[w]) = 0
       /\ Cardinality(PostedAt("DONE")) = (IF bpc = "done" THEN 1 ELSE 0)
       /\ bpc = "done"
          => /\ \A i \in Idx : TimesScored(i) = 1
             /\ PostedAt("DONE") = {Len(posted)}
             /\ Cardinality(PostedAt("RESULT_STREAM"))
                  = Cardinality({i \in Idx : st[i] = "ok"})

\* a finished batch of three items that two workers shared, one item failed
\* and the others were streamed
C22_Witness_SharedBatchDone ==
    /\ bImpl = "workerPool" /\ bpc = "done"
    /\ Len(items) >= 3 /\ Len(wk) = 2
    /\ \E i \in Idx : st[i] = "failed"
    /\ Cardinality(PostedAt("RESULT_STREAM")) >= 2

(* ===================== message protocol properties ===================== *)

\* request id has been posted
Posted(id) == requests[id].type # "none"

\* the worker answered request id once and the page settled it once
Answered(id) == replies[id] = 1 /\ settles[id] = 1 /\ id \notin pendingMap

\* no request has two replies or is settled twice, a settled request had its
\* reply, and pending holds exactly the posted requests not yet settled
OneReplyOneSettle ==
    \A id \in ReqIds :
       /\ replies[id] <= 1 /\ settles[id] <= 1
       /\ settles[id] <= replies[id]
       /\ (id \in pendingMap) = (Posted(id) /\ settles[id] = 0)
       /\ ~Posted(id) => replies[id] = 0

\* C23: for every request the page posts, the worker eventually sends
\* exactly one reply with its id, and the page settles its promise exactly
\* once and removes it from pending; pending holds only outstanding requests.
C23_EveryRequestAnswered ==
    /\ []OneReplyOneSettle
    /\ \A id \in ReqIds : Posted(id) ~> Answered(id)

\* every request of a full run was answered, a SCORE_ONE and its NEIGHBORS
\* among them, and pending is empty again
C23_Witness_AllAnswered ==
    /\ posts = MaxRequests /\ pendingMap = {} /\ toMain = <<>>
    /\ \A id \in ReqIds : Answered(id)
    /\ \E id \in ReqIds : requests[id].type = "SCORE_ONE"
    /\ \E id \in ReqIds : requests[id].type = "NEIGHBORS"

\* C24: the score panel is only ever updated with a result whose id equals
\* the node id selected at the time of the update.
C24_PanelShowsSelected == panel # NoRes => panel.id = panel.sel

(* ===================== score composition properties ==================== *)

\* the address is on none of the lists the engine was given
OnNoList ==
    IF engine \in SetEngines
    THEN Subject \notin (ofacSet \cup tornadoSet \cup scamSet)
    ELSE \A k \in {"ofacHit", "mixer", "scamCluster", "tornadoHit", "scamClusterHit",
                   "chainabuse", "caFraud", "scamPlatform"} : ~Truthy(signals, k)

\* the sum of the impacts of the factors in the result
RECURSIVE SumImpacts(_, _)
SumImpacts(parts, keys) ==
    IF keys = {} THEN 0
    ELSE LET k == CHOOSE x \in keys : TRUE
         IN  parts[k] + SumImpacts(parts, keys \ {k})

\* C25: when the address is on no list, the returned score equals
\* clamp(base + rawContribution, 0, 100), where rawContribution is the sum of
\* the impacts of all factors reported in the result.
C25_ScoreIsClampedSum ==
    (HasRes /\ "parts" \in DOMAIN res /\ OnNoList)
    => /\ res.rawContribution = SumImpacts(res.parts, DOMAIN res.parts)
       /\ res.score = clamp(res.baseScore + res.rawContribution, 0, 100)

(* ========================== link weight properties ===================== *)

\* the builders the link-weight statement is made about
WeightedBuilders == {"buildNeighborGraphV163", "buildNeighborGraph", "handleNeighbors"}

\* the transactions of the input list between the center and address n,
\* compared in lower case
TxsBetween(center, n) ==
    {i \in DOMAIN gTxs :
        LET tx == LowerTx(gTxs[i])
        IN  \/ (tx.from = center /\ tx.to = n)
            \/ (tx.to = center /\ tx.from = n)}

\* C26: in the neighbor graph every link joins the center to one neighbor
\* node present in nodes, and its weight equals the number of transactions of
\* the input list between the center and that neighbor.
C26_LinkWeightIsTxCount ==
    (graph # NoRes /\ gImpl \in WeightedBuilders)
    => \A k \in DOMAIN graph.links :
          LET l == graph.links[k]
          IN  /\ l.a = graph.nodes[1]
              /\ l.b # l.a
              /\ \E j \in DOMAIN graph.nodes : j > 1 /\ graph.nodes[j] = l.b
              /\ l.weight = Cardinality(TxsBetween(l.a, l.b))

(* ========================= counterparty properties ===================== *)

\* the addresses other than a at the other end of a transaction of a
CounterpartiesOf(a, txs) ==
    ({txs[i].to : i \in {j \in DOMAIN txs : txs[j].from = a}}
     \cup {txs[i].from : i \in {j \in DOMAIN txs : txs[j].to = a}}) \ {a, <<>>}

\* C27: the counterparties are counted relative to the address the request
\* is about, and a self-transfer adds none: uniqueCounterparties is the
\* number of distinct addresses other than the subject that the history
\* joins to it.
C27_CounterpartiesOfSubject ==
    (hpc = "done" /\ body # NoRes /\ hist # None)
    => body.feats.uniqueCounterparties
         = Cardinality(CounterpartiesOf(reqAddr, hist[1]))

(* ======================= input frame properties ======================== *)

\* C28: feature extraction has no side effect on its input: after the call
\* the transaction list passed in has the same elements in the same order as
\* before the call.
C28_InputUnchanged == fOut # NoRes => fTxs = fGiven

(* ========================== block properties =========================== *)

SanctionsLabel == "OFAC / sanctions list match"

\* C30: the reasons list contains the label 'OFAC / sanctions list match' if
\* and only if the address is a member of the OFAC set; a hit on only the
\* mixer or scam list never produces the sanctions label.
C30_SanctionsLabelIffOfac ==
    (HasRes /\ engine \in SetEngines /\ "reasons" \in DOMAIN res)
    => (SanctionsLabel \in res.reasons <=> Subject \in ofacSet)

====
